---- MODULE Spec2Model ----
(***************************************************************************)
(* Model of the site crawler: the dispatch loop Crawler.Run, the page      *)
(* workers (processSingleURL), the retrying Fetcher, the link and asset    *)
(* checkers with their fan-out, the URL queue, the visited set and the     *)
(* report builder.                                                         *)
(*                                                                         *)
(* A site is what the HTTP client and the HTML extractors return for each  *)
(* URL; the URLs are the normalized strings the extractors produce.        *)
(***************************************************************************)
EXTENDS Integers, Sequences, FiniteSets, TLC

\* ---------------------------------------------------------------- bounds
MaxDepthOpt == 3
MaxWorkersOpt == 2
MaxFail == 3
MaxLiveDepth == 2
MaxCancelWorkers == 2
MaxTicks == 5

\* ------------------------------------------------------------------ URLs
PageA == "https://example.com/a"
Root == "https://example.com/b"
PageB == "https://example.com/c"
PageC == "https://example.com/d"
Ext == "https://other.org/x"
Urls == {PageA, Root, PageB, PageC, Ext}
Img == "https://example.com/i.png"
Js == "https://example.com/s.js"
AssetUrls == {Img, Js}

\* the URLs in the code-point order of their strings
CodePointOrder == <<PageA, Root, PageB, PageC, Ext>>

\* the string comparison a < b
UrlLess(a, b) ==
    \E i \in 1..Len(CodePointOrder) : \E k \in 1..Len(CodePointOrder) :
        CodePointOrder[i] = a /\ CodePointOrder[k] = b /\ i < k

IsSameDomain_Any(u) == TRUE

\* urlutil.IsSameDomain: the host of the link equals the host of the root
IsSameDomain(u) == u # Ext

\* ---------------------------------------------------------------- net/url
\* An href, and the URL given to Analyze, is written as the sequence of its
\* lexical pieces; the string is their concatenation.
RECURSIVE Concat(_)
Concat(t) == IF t = <<>> THEN "" ELSE Head(t) \o Concat(Tail(t))

\* The pieces are ":", "#", "//", the pieces that begin with one slash, and
\* words, which hold none of these characters; two words never stand side by
\* side. These are the pieces that begin with one slash:
PathTokens == {"/", "/a", "/b", "/c", "/d", "/x", "/f"}

\* strings.HasPrefix(piece, "/")
StartsWithSlash(tok) == tok \in PathTokens \cup {"//"}

\* the words that getScheme does not take for a scheme: a character that is
\* no letter, digit, "+", "-" or ".", or a first character that is no letter
NonSchemeWords == {"not a url", "void(0)", "+1", "8080"}

\* the words with a character that a host name cannot hold
BadHostWords == {"not a url"}

\* the words made of digits
DigitWords == {"8080"}

\* getScheme finds a scheme in front of the first colon
IsSchemeWord(w) ==
    w \notin {":", "#", "//"} \cup PathTokens \cup NonSchemeWords

\* the words that stand before the first colon in the hrefs of the sites
SchemeWords ==
    {"https", "http", "ftp", "javascript", "JavaScript", "mailto", "tel", "data"}

\* strings.ToLower of a scheme, as url.Parse applies it
ToLower(w) == IF w = "JavaScript" THEN "javascript" ELSE w

\* the index of the first "#", or Len(t) + 1
FragAt(t) ==
    IF \E i \in 1..Len(t) : t[i] = "#"
    THEN CHOOSE i \in 1..Len(t) : t[i] = "#" /\ \A k \in 1..(i - 1) : t[k] # "#"
    ELSE Len(t) + 1

\* url.URL, with the error of url.Parse; Path and Fragment are held as
\* their pieces, unescaped
ParsedURL(scheme, host, path, opaque, frag) ==
    [err |-> FALSE, Scheme |-> scheme, Host |-> host, Path |-> path,
     Opaque |-> opaque, Fragment |-> frag, OmitHost |-> FALSE]
ParseError ==
    [err |-> TRUE, Scheme |-> "", Host |-> "", Path |-> <<>>, Opaque |-> "",
     Fragment |-> <<>>, OmitHost |-> FALSE]

\* url.parse: the index where the authority that begins at rest[1] = "//"
\* ends, which is the next piece that begins with a slash, or Len(rest) + 1
AuthorityEnd(rest) ==
    IF \E i \in 2..Len(rest) : StartsWithSlash(rest[i])
    THEN CHOOSE i \in 2..Len(rest) :
            StartsWithSlash(rest[i]) /\ \A k \in 2..(i - 1) : ~StartsWithSlash(rest[k])
    ELSE Len(rest) + 1

\* url.parseHost: no invalid character, and after the last colon nothing
\* but digits
ValidHost(a) ==
    /\ \A i \in 1..Len(a) : a[i] \notin BadHostWords
    /\ \A i \in 1..Len(a) :
          (a[i] = ":" /\ \A k \in (i + 1)..Len(a) : a[k] # ":")
            => \A k \in (i + 1)..Len(a) : a[k] \in DigitWords

\* url.Parse: the fragment is cut off; the scheme is what stands before the
\* first colon if it is spelled like one; with a scheme, what does not begin
\* with a slash is opaque; "//" starts the authority, except for "///"
\* without a scheme; a scheme followed by a single slash omits the host
ParseURL(t) ==
    LET f == FragAt(t)
        u == SubSeq(t, 1, f - 1)
        frag == SubSeq(t, f + 1, Len(t))
        hasScheme == Len(u) >= 2 /\ IsSchemeWord(u[1]) /\ u[2] = ":"
        scheme == IF hasScheme THEN ToLower(u[1]) ELSE ""
        rest == IF hasScheme THEN SubSeq(u, 3, Len(u)) ELSE u
        rooted == rest # <<>> /\ StartsWithSlash(rest[1])
        hasAuthority ==
            /\ rest # <<>>
            /\ rest[1] = "//"
            /\ (hasScheme \/ ~(Len(rest) >= 2 /\ StartsWithSlash(rest[2])))
        e == AuthorityEnd(rest)
        authority == SubSeq(rest, 2, e - 1)
    IN
    IF u # <<>> /\ u[1] = ":" THEN ParseError        \* missing protocol scheme
    ELSE IF ~rooted /\ hasScheme
         THEN ParsedURL(scheme, "", <<>>, Concat(rest), frag)
    ELSE IF /\ ~rooted
            /\ \E i \in 1..Len(rest) :
                  /\ rest[i] = ":"
                  /\ \A k \in 1..(i - 1) : ~StartsWithSlash(rest[k])
         THEN ParseError          \* first path segment cannot contain colon
    ELSE IF hasAuthority
         THEN IF ValidHost(authority)
              THEN ParsedURL(scheme, Concat(authority),
                             SubSeq(rest, e, Len(rest)), "", frag)
              ELSE ParseError     \* invalid character in host name, invalid port
    ELSE [ParsedURL(scheme, "", rest, "", frag) EXCEPT
            !.OmitHost = hasScheme /\ rooted]

\* the pieces that are not a valid encoding of themselves in a path or in a
\* fragment: a space, a "#"
Unencoded == {"not a url", "#"}

\* url.escape in the mode of paths, piece by piece
PathEscape(w) ==
    CASE w = "not a url" -> "not%20a%20url"
      [] w = "void(0)" -> "void%280%29"
      [] w = "#" -> "%23"
      [] OTHER -> w

\* url.escape in the mode of fragments, piece by piece
FragmentEscape(w) ==
    CASE w = "not a url" -> "not%20a%20url"
      [] w = "#" -> "%23"
      [] OTHER -> w

\* URL.EscapedPath: the path as it was written if that is a valid encoding,
\* and the escaped path if not
EscapedPath(p) ==
    IF \E i \in 1..Len(p) : p[i] \in Unencoded
    THEN Concat([i \in 1..Len(p) |-> PathEscape(p[i])])
    ELSE Concat(p)

\* URL.EscapedFragment
EscapedFragment(f) ==
    IF \E i \in 1..Len(f) : f[i] \in Unencoded
    THEN Concat([i \in 1..Len(f) |-> FragmentEscape(f[i])])
    ELSE Concat(f)

\* URL.String: "//" stands before the host unless the host was omitted, or
\* host and path are both empty; a path that does not begin with a slash
\* gets one after a host, and "./" when the string would begin with a
\* segment that holds a colon
URLString(u) ==
    LET colonInFirstSegment ==
            \E i \in 1..Len(u.Path) :
                u.Path[i] = ":" /\ \A k \in 1..(i - 1) : ~StartsWithSlash(u.Path[k])
        start ==
            (IF u.Scheme # "" THEN u.Scheme \o ":" ELSE "")
            \o (IF /\ u.Opaque = ""
                   /\ u.Scheme # "" \/ u.Host # ""
                   /\ ~(u.OmitHost /\ u.Host = "")
                   /\ u.Host # "" \/ u.Path # <<>>
                THEN "//" \o u.Host ELSE "")
    IN
    start
    \o (IF u.Opaque # "" THEN u.Opaque
        ELSE (IF u.Path # <<>> /\ ~StartsWithSlash(u.Path[1]) /\ u.Host # ""
              THEN "/"
              ELSE IF start = "" /\ colonInFirstSegment THEN "./"
              ELSE "")
             \o EscapedPath(u.Path))
    \o (IF u.Fragment # <<>> THEN "#" \o EscapedFragment(u.Fragment) ELSE "")

\* the scheme and host of a page URL, as url.Parse(urlStr) gives them
BaseOf(page) ==
    IF page = Ext THEN ParsedURL("https", "other.org", <<"/x">>, "", <<>>)
    ELSE ParsedURL("https", "example.com",
                   CASE page = PageA -> <<"/a">>
                     [] page = Root -> <<"/b">>
                     [] page = PageB -> <<"/c">>
                     [] page = PageC -> <<"/d">>
                     [] OTHER -> <<>>, "", <<>>)

\* resolvePath, for paths without the segments "." and "..": a reference
\* that does not begin with a slash is put behind the directory of the base,
\* which is the base up to its last slash, and the result begins with a slash
ResolvePath(base, ref) ==
    LET last == CHOOSE k \in 1..Len(base) :
                    /\ StartsWithSlash(base[k])
                    /\ \A m \in (k + 1)..Len(base) : ~StartsWithSlash(base[m])
        dir == IF \E k \in 1..Len(base) : StartsWithSlash(base[k])
               THEN SubSeq(base, 1, last - 1)
                    \o <<IF base[last] = "//" THEN "//" ELSE "/">>
               ELSE <<>>
        full == IF ref = <<>> THEN base
                ELSE IF StartsWithSlash(ref[1]) THEN ref
                ELSE dir \o ref
    IN IF full = <<>> \/ StartsWithSlash(full[1]) THEN full ELSE <<"/">> \o full

\* URL.ResolveReference: a reference with a scheme or a host keeps its own
\* path; any other takes scheme and host of the base and its path is
\* resolved against the path of the base; an empty reference without a
\* fragment takes the fragment of the base
ResolveReference(base, ref) ==
    IF ref.Scheme # "" \/ ref.Host # ""
    THEN [ref EXCEPT !.Scheme = IF @ = "" THEN base.Scheme ELSE @,
                     !.Path = ResolvePath(@, <<>>)]
    ELSE [ref EXCEPT !.Scheme = base.Scheme,
                     !.Host = base.Host,
                     !.Path = ResolvePath(base.Path, @),
                     !.Fragment = IF ref.Path = <<>> /\ @ = <<>>
                                  THEN base.Fragment ELSE @]

\* ---------------------------------------------------------------- urlutil
\* urlutil.NormalizeURL: no fragment, no lone slash as the path
NormalizeURL(u) ==
    URLString([u EXCEPT !.Fragment = <<>>,
                        !.Path = IF u.Path = <<"/">> THEN <<>> ELSE u.Path])

\* strings.HasPrefix(href, word ":")
HasSchemePrefix(href, word) ==
    Len(href) >= 2 /\ href[1] = word /\ href[2] = ":"

ResolveURL_NoSchemeTest(href, page) ==
    IF href = <<>> THEN ""
    ELSE IF \/ href[1] = "#"
            \/ HasSchemePrefix(href, "javascript")
            \/ HasSchemePrefix(href, "mailto")
            \/ HasSchemePrefix(href, "tel")
         THEN ""
    ELSE IF ParseURL(href).err THEN ""
    ELSE NormalizeURL(ResolveReference(BaseOf(page), ParseURL(href)))

\* urlutil.ResolveURL: "" for an href that is skipped
ResolveURL(href, page) ==
    IF href = <<>> THEN ""
    ELSE IF \/ href[1] = "#"
            \/ HasSchemePrefix(href, "javascript")
            \/ HasSchemePrefix(href, "mailto")
            \/ HasSchemePrefix(href, "tel")
         THEN ""
    ELSE IF ParseURL(href).err THEN ""
    ELSE IF ParseURL(href).Scheme \notin {"", "http", "https"} THEN ""
    ELSE NormalizeURL(ResolveReference(BaseOf(page), ParseURL(href)))

\* parser.ExtractLinks over the href values of the anchors of a page, in
\* document order
RECURSIVE ExtractLinks(_, _)
ExtractLinks(hrefs, page) ==
    IF hrefs = <<>> THEN <<>>
    ELSE (IF ResolveURL(Head(hrefs), page) # ""
          THEN <<ResolveURL(Head(hrefs), page)>> ELSE <<>>)
         \o ExtractLinks(Tail(hrefs), page)

\* strings.Contains(urlStr, "://")
HasSchemeSeparator(t) ==
    \E i \in 1..(Len(t) - 1) : t[i] = ":" /\ t[i + 1] = "//"

\* urlutil.NormalizeURLString: "https://" is put before a string without "://"
NormalizeURLString(t) ==
    IF HasSchemeSeparator(t) THEN t ELSE <<"https", ":", "//">> \o t

ParseAndValidateURL_AnyHost(t) ==
    IF ParseURL(NormalizeURLString(t)).err THEN ParseError
    ELSE ParseURL(NormalizeURLString(t))

\* urlutil.ParseAndValidateURL: the parsed URL, or an error
ParseAndValidateURL(t) ==
    IF ParseURL(NormalizeURLString(t)).err THEN ParseError
    ELSE IF ParseURL(NormalizeURLString(t)).Host = "" THEN ParseError
    ELSE ParseURL(NormalizeURLString(t))

\* the href that spells a URL of the site in full
Abs(u) ==
    CASE u = PageA -> <<"https", ":", "//", "example.com", "/a">>
      [] u = Root -> <<"https", ":", "//", "example.com", "/b">>
      [] u = PageB -> <<"https", ":", "//", "example.com", "/c">>
      [] u = PageC -> <<"https", ":", "//", "example.com", "/d">>
      [] OTHER -> <<"https", ":", "//", "other.org", "/x">>

\* ------------------------------------------------------------- responses
\* One answer of the HTTP client: a transport error, or a status code with
\* or without an HTML/XML body.
Resp(code, html) == [err |-> "", code |-> code, html |-> html]
TransportErr == [err |-> "transport error", code |-> 0, html |-> FALSE]
OkHtml == Resp(200, TRUE)

\* httputil.FetchResult
EmptyResult == [StatusCode |-> 0, HTMLContent |-> FALSE, Error |-> ""]
CtxResult == [StatusCode |-> 0, HTMLContent |-> FALSE, Error |-> "context canceled"]

\* Go slices: nil is distinct from an empty slice
NilSlice == [isnil |-> TRUE, items |-> <<>>]
EmptySlice == [isnil |-> FALSE, items |-> <<>>]
Slice(s) == [isnil |-> FALSE, items |-> s]

Min(a, b) == IF a < b THEN a ELSE b

VARIABLES
    opts,       \* Options after normalizeOptions: URL, Depth, Concurrency,
                \* Retries, Delay
    site,       \* links, assets and answers of every URL
    cancelled,  \* ctx.Err() != nil
    queue,      \* state.URLQueue.items
    visited,    \* state.VisitedSet.urls
    wg,         \* state.CrawlState.WG counter
    sem,        \* number of tokens in state.CrawlState.Semaphore
    rpc,        \* position of Crawler.Run
    item,       \* the entry Run has dequeued and is dispatching
    jobs,       \* the worker goroutines started so far, in dispatch order
    pages,      \* report.Builder.report.Pages
    encoded,    \* the page list written by Builder.Encode
    cache,      \* checker.AssetChecker.cache
    gets,       \* page GET requests issued so far, per URL
    heads,      \* link HEAD requests issued so far, per URL
    agets,      \* asset GET requests issued so far, per asset URL
    lim,        \* httputil.RateLimiter: its channel and its goroutine
    builder     \* report.Builder.report without the pages: RootURL, Depth

vars == <<opts, site, cancelled, queue, visited, wg, sem, rpc, item, jobs,
          pages, encoded, cache, gets, heads, agets, lim, builder>>

\* the answer to the n-th request for a URL; the last answer repeats
Answer(seq, n) == seq[Min(n, Len(seq))]

\* ------------------------------------------------------- report package
SetPageStatus_NoDefaultError(page) ==
    IF page.HTTPStatus = 0
    THEN [page EXCEPT !.Status = "error"]
    ELSE [page EXCEPT !.Status =
            IF page.HTTPStatus >= 200 /\ page.HTTPStatus < 300 THEN "ok"
            ELSE IF page.HTTPStatus >= 300 /\ page.HTTPStatus < 400 THEN "redirect"
            ELSE IF page.HTTPStatus >= 400 /\ page.HTTPStatus < 500 THEN "client_error"
            ELSE "server_error"]

SetPageStatus_B300(page) ==
    IF page.HTTPStatus = 0
    THEN [page EXCEPT !.Status = "error",
                      !.Error = IF page.Error = "" THEN "no response received" ELSE page.Error]
    ELSE [page EXCEPT !.Status =
            IF page.HTTPStatus >= 200 /\ page.HTTPStatus <= 300 THEN "ok"
            ELSE IF page.HTTPStatus >= 300 /\ page.HTTPStatus < 400 THEN "redirect"
            ELSE IF page.HTTPStatus >= 400 /\ page.HTTPStatus < 500 THEN "client_error"
            ELSE "server_error"]

SetPageStatus(page) ==
    IF page.HTTPStatus = 0
    THEN [page EXCEPT !.Status = "error",
                      !.Error = IF page.Error = "" THEN "no response received" ELSE page.Error]
    ELSE [page EXCEPT !.Status =
            IF page.HTTPStatus >= 200 /\ page.HTTPStatus < 300 THEN "ok"
            ELSE IF page.HTTPStatus >= 300 /\ page.HTTPStatus < 400 THEN "redirect"
            ELSE IF page.HTTPStatus >= 400 /\ page.HTTPStatus < 500 THEN "client_error"
            ELSE "server_error"]

AddPageFix_KeepNil(page) ==
    IF page.Error # ""
    THEN [page EXCEPT !.BrokenLinks = NilSlice, !.Assets = NilSlice]
    ELSE page

\* Builder.AddPage: the page as it is appended
AddPageFix(page) ==
    IF page.Error # ""
    THEN [page EXCEPT !.BrokenLinks = NilSlice, !.Assets = NilSlice]
    ELSE [page EXCEPT
            !.BrokenLinks = IF page.BrokenLinks.isnil THEN EmptySlice ELSE page.BrokenLinks,
            !.Assets = IF page.Assets.isnil THEN EmptySlice ELSE page.Assets]

\* report.Page{URL: urlStr, Depth: depth}
NewPage(u, d) ==
    [URL |-> u, Depth |-> d, HTTPStatus |-> 0, Status |-> "", Error |-> "",
     BrokenLinks |-> NilSlice, Assets |-> NilSlice]

\* sort.SliceStable by URL: stable insertion of each page in turn
RECURSIVE InsertByURL(_, _)
InsertByURL(s, p) ==
    IF s = <<>> THEN <<p>>
    ELSE IF UrlLess(p.URL, Head(s).URL) THEN <<p>> \o s
    ELSE <<Head(s)>> \o InsertByURL(Tail(s), p)

SortByURL_Keep(s) == s

RECURSIVE SortByURL(_)
SortByURL(s) ==
    IF s = <<>> THEN <<>>
    ELSE InsertByURL(SortByURL(SubSeq(s, 1, Len(s) - 1)), s[Len(s)])


\* ------------------------------------------------------ httputil.Fetcher
PerformRequest_KeepBody(o) ==
    IF o.err # ""
    THEN [StatusCode |-> 0, HTMLContent |-> FALSE, Error |-> o.err]
    ELSE [StatusCode |-> o.code, HTMLContent |-> o.html, Error |-> ""]

PerformRequest_ErrorAsOk(o) ==
    IF o.err # ""
    THEN [StatusCode |-> 200, HTMLContent |-> FALSE, Error |-> ""]
    ELSE [StatusCode |-> o.code,
          HTMLContent |-> (o.code >= 200 /\ o.code < 300 /\ o.html),
          Error |-> ""]

\* Fetcher.performRequest: the FetchResult built from the client's answer;
\* the body is kept only for a 2xx answer with an HTML/XML content type
PerformRequest(o) ==
    IF o.err # ""
    THEN [StatusCode |-> 0, HTMLContent |-> FALSE, Error |-> o.err]
    ELSE [StatusCode |-> o.code,
          HTMLContent |-> (o.code >= 200 /\ o.code < 300 /\ o.html),
          Error |-> ""]

ShouldRetry_No429(result) ==
    \/ result.Error # ""
    \/ (result.StatusCode >= 500 /\ result.StatusCode < 600)

\* Fetcher.shouldRetry
ShouldRetry(result) ==
    \/ result.Error # ""
    \/ result.StatusCode = 429
    \/ (result.StatusCode >= 500 /\ result.StatusCode < 600)

FetchReturns_OffByOne(result, attempt, maxRetries) ==
    \/ (result.Error = "" /\ result.StatusCode < 500 /\ result.StatusCode # 429)
    \/ attempt + 1 = maxRetries
    \/ ~ShouldRetry(result)

\* Fetcher.Fetch: whether the loop returns the result of this attempt
FetchReturns(result, attempt, maxRetries) ==
    \/ (result.Error = "" /\ result.StatusCode < 500 /\ result.StatusCode # 429)
    \/ attempt = maxRetries
    \/ ~ShouldRetry(result)

\* ------------------------------------------------------------ goroutines
\* the state of one fan-out (CheckLinks or CheckAssets) inside a worker
NoFan == [sem |-> 0, wg |-> 0, chan |-> <<>>, closed |-> FALSE,
          probes |-> <<>>, out |-> <<>>]

\* checker.Asset
NoAsset == [URL |-> "", Type |-> "", StatusCode |-> 0, SizeBytes |-> 0, Error |-> ""]

NewProbe == [pc |-> "begin", attempt |-> 0, res |-> EmptyResult, asset |-> NoAsset]

\* the goroutine started by processURLWithWorker for one queue entry
NewJob(u, d) ==
    [pc |-> "start", url |-> u, depth |-> d, attempt |-> 0,
     result |-> EmptyResult, page |-> NewPage(u, d), links |-> <<>>,
     idx |-> 1, toAdd |-> <<>>, fan |-> NoFan]

\* what is left of a goroutine after it returned
ExitedJob(job) ==
    [NewJob(job.url, job.depth) EXCEPT !.pc = "exit", !.toAdd = job.toAdd,
                                       !.attempt = job.attempt]

JobIds == 1..Len(jobs)

\* state.URLWithDepth
Entry(u, d) == [URL |-> u, Depth |-> d]
NoItem == Entry("", 0)

\* -------------------------------------------------------- state package
\* URLQueue.IsEmpty
IsEmpty(q) == Len(q) = 0

\* VisitedSet.Contains
Contains(v, u) == u \in v

\* NewURLQueue: the root at depth 0
NewURLQueue(rootURL) == <<Entry(rootURL, 0)>>

\* ------------------------------------------------- httputil.RateLimiter
\* ticker: the limiter has a channel (delay > 0); ticks: the ticks buffered in
\* the channel of capacity 1; closed: the goroutine has returned and closed it;
\* emitted: the ticks the goroutine has received from the time.Ticker so far
NoLimiter == [ticker |-> FALSE, ticks |-> 0, closed |-> FALSE, emitted |-> 0]

\* NewRateLimiter: no channel for delay <= 0, else an empty channel and the
\* goroutine that feeds it
NewRateLimiter(delay) ==
    IF delay <= 0 THEN NoLimiter
    ELSE [ticker |-> TRUE, ticks |-> 0, closed |-> FALSE, emitted |-> 0]

WaitCanSucceed_Always(l) == TRUE

\* RateLimiter.Wait can return true: there is no channel, or a tick is
\* buffered, or the channel is closed (a receive from a closed channel never
\* blocks)
WaitCanSucceed(l) == ~l.ticker \/ l.ticks > 0 \/ l.closed

\* the channel after the receive of Wait
AfterReceive(l) == [l EXCEPT !.ticks = IF @ > 0 THEN @ - 1 ELSE @]

AfterTick_Accumulate(l) == [l EXCEPT !.ticks = @ + 1, !.emitted = @ + 1]

\* the inner select of the limiter goroutine: the tick is put into the channel
\* of capacity 1 if it has room, and dropped by the default case if not
AfterTick(l) == [l EXCEPT !.ticks = IF @ = 0 THEN 1 ELSE @, !.emitted = @ + 1]

\* the limiter goroutine: the ticker fires
LimiterTick ==
    /\ lim.ticker
    /\ ~lim.closed
    /\ lim.emitted < MaxTicks
    /\ lim' = AfterTick(lim)
    /\ UNCHANGED <<builder, opts, site, cancelled, queue, visited, wg, sem, rpc,
                   item, jobs, pages, encoded, cache, gets, heads, agets>>

\* the limiter goroutine: ctx.Done is received, the goroutine returns and
\* its deferred close(outChan) runs
LimiterStop ==
    /\ lim.ticker
    /\ ~lim.closed
    /\ cancelled
    /\ lim' = [lim EXCEPT !.closed = TRUE]
    /\ UNCHANGED <<builder, opts, site, cancelled, queue, visited, wg, sem, rpc,
                   item, jobs, pages, encoded, cache, gets, heads, agets>>

\* the caller of Analyze cancels the context
Cancel ==
    /\ ~cancelled
    /\ rpc \notin {"analyze", "failed", "returned"}
    /\ cancelled' = TRUE
    /\ UNCHANGED <<lim, builder, opts, site, queue, visited, wg, sem, rpc, item,
                   jobs, pages, encoded, cache, gets, heads, agets>>

\* ------------------------------------------------------ report.NewBuilder
NoReport == [RootURL |-> "", Depth |-> 0]
NewBuilder(rootURL, depth) == [RootURL |-> rootURL, Depth |-> depth]

\* ------------------------------------------------------- crawler.Analyze
\* the worker limit normalizeOptions puts in place of a value <= 0
DefaultConcurrency == 4

\* normalizeOptions, applied by Analyze to its own copy of the options
NormalizeOptions(o) ==
    [o EXCEPT !.Concurrency = IF @ <= 0 THEN DefaultConcurrency ELSE @]

\* NewCrawlState and the checkers: the capacity of the semaphores
Workers == NormalizeOptions(opts).Concurrency

\* Analyze up to the call of Run: the URL is validated, then the limiter, the
\* crawl state and the report builder are made; an invalid URL ends Analyze
\* with an error
Analyze ==
    /\ rpc = "analyze"
    /\ IF ParseAndValidateURL(opts.URL).err
       THEN /\ rpc' = "failed"
            /\ UNCHANGED <<lim, queue, builder>>
       ELSE /\ lim' = NewRateLimiter(opts.Delay)
            /\ queue' = NewURLQueue(URLString(ParseAndValidateURL(opts.URL)))
            /\ builder' = NewBuilder(URLString(ParseAndValidateURL(opts.URL)),
                                     opts.Depth)
            /\ rpc' = "loop"
    /\ UNCHANGED <<opts, site, cancelled, visited, wg, sem, item, jobs, pages,
                   encoded, cache, gets, heads, agets>>

\* ---------------------------------------------------------- Crawler.Run
RunCtxDone_Never(c) == FALSE

\* the loop condition of Run, negated: ctx.Err() != nil
RunCtxDone(c) == c

\* the loop head of Run: the ctx test
RunLoop ==
    /\ rpc = "loop"
    /\ rpc' = IF RunCtxDone(cancelled) THEN "final" ELSE "dequeue"
    /\ UNCHANGED <<lim, builder, opts, site, cancelled, queue, visited, wg, sem, item,
                   jobs, pages, encoded, cache, gets, heads, agets>>

\* the body of the loop of Run: Queue.Dequeue, and the test of what it
\* returned
RunDequeue ==
    /\ rpc = "dequeue"
    /\ IF IsEmpty(queue)
       THEN rpc' = "wait" /\ UNCHANGED <<queue, item>>
       ELSE /\ item' = Head(queue)
            /\ queue' = Tail(queue)
            /\ rpc' = "add"
    /\ UNCHANGED <<lim, builder, opts, site, cancelled, visited, wg, sem, jobs, pages,
                   encoded, cache, gets, heads, agets>>

RunJoinTarget_NoRecheck(q) == "final"

\* Run after WG.Wait returned inside the loop: break if the queue is still
\* empty, continue otherwise
RunJoinTarget(q) == IF IsEmpty(q) THEN "final" ELSE "loop"

\* Run blocked in WG.Wait inside the loop, then the re-check of the queue
RunJoin ==
    /\ rpc = "wait"
    /\ wg = 0
    /\ rpc' = RunJoinTarget(queue)
    /\ UNCHANGED <<lim, builder, opts, site, cancelled, queue, visited, wg, sem, item,
                   jobs, pages, encoded, cache, gets, heads, agets>>

\* processURLWithWorker: WG.Add(1)
RunAdd ==
    /\ rpc = "add"
    /\ wg' = wg + 1
    /\ rpc' = "acquire"
    /\ UNCHANGED <<lim, builder, opts, site, cancelled, queue, visited, sem, item, jobs,
                   pages, encoded, cache, gets, heads, agets>>

SlotFree_Always(n, workers) == TRUE

\* the send on Semaphore can proceed: the channel holds fewer than its capacity
SlotFree(n, workers) == n < workers

\* processURLWithWorker: the send on Semaphore, then the go statement
RunSpawn ==
    /\ rpc = "acquire"
    /\ SlotFree(sem, Workers)
    /\ sem' = sem + 1
    /\ jobs' = Append(jobs, NewJob(item.URL, item.Depth))
    /\ item' = NoItem
    /\ rpc' = "loop"
    /\ UNCHANGED <<lim, builder, opts, site, cancelled, queue, visited, wg, pages,
                   encoded, cache, gets, heads, agets>>

\* the final WG.Wait of Run
RunFinal ==
    /\ rpc = "final"
    /\ wg = 0
    /\ rpc' = "done"
    /\ UNCHANGED <<lim, builder, opts, site, cancelled, queue, visited, wg, sem, item,
                   jobs, pages, encoded, cache, gets, heads, agets>>

\* Builder.Encode, called by Analyze after Run returned: the pages are
\* sorted in place and written out
Encode ==
    /\ rpc = "done"
    /\ pages' = SortByURL(pages)
    /\ encoded' = pages'
    /\ rpc' = "returned"
    /\ UNCHANGED <<lim, builder, opts, site, cancelled, queue, visited, wg, sem, item,
                   jobs, cache, gets, heads, agets>>

\* ------------------------------------------------------- processSingleURL
\* the ctx test and Visited.Contains
WorkerStart ==
    \E j \in JobIds :
    /\ jobs[j].pc = "start"
    /\ jobs' = [jobs EXCEPT ![j].pc =
                  IF cancelled \/ Contains(visited, jobs[j].url)
                  THEN "release" ELSE "mark"]
    /\ UNCHANGED <<lim, builder, opts, site, cancelled, queue, visited, wg, sem, rpc, item,
                   pages, encoded, cache, gets, heads, agets>>

Add_Replace(v, u) == {u}

\* VisitedSet.Add
Add(v, u) == v \cup {u}

\* processSingleURL: Visited.Add
WorkerMark ==
    \E j \in JobIds :
    /\ jobs[j].pc = "mark"
    /\ visited' = Add(visited, jobs[j].url)
    /\ jobs' = [jobs EXCEPT ![j].pc = "fetch"]
    /\ UNCHANGED <<lim, builder, opts, site, cancelled, queue, wg, sem, rpc, item, pages,
                   encoded, cache, gets, heads, agets>>

\* performRequest from the request it builds to its return, and the tests of
\* the loop of Fetch on the result: the request is made, ctx cancelled or
\* not, and the loop returns its result or goes on to the next attempt
ClientDo(j) ==
    LET job == jobs[j]
        res == PerformRequest(Answer(site.resp[job.url], gets[job.url] + 1))
    IN
    /\ gets' = [gets EXCEPT ![job.url] = @ + 1]
    /\ IF FetchReturns(res, job.attempt, opts.Retries)
       THEN jobs' = [jobs EXCEPT ![j].result = res, ![j].pc = "fetched"]
       ELSE jobs' = [jobs EXCEPT ![j].result = res, ![j].attempt = @ + 1,
                                 ![j].pc = "fetch"]

\* the entry of performRequest: with a limiter the caller enters Wait,
\* without one the request follows at once
PerformOrWait(j) ==
    IF lim.ticker
    THEN /\ jobs' = [jobs EXCEPT ![j].pc = "fwait"]
         /\ UNCHANGED gets
    ELSE ClientDo(j)

\* the head of one iteration of the attempt loop of Fetcher.Fetch: the loop
\* condition and the ctx test; a first attempt goes on to performRequest, a
\* later attempt blocks in waitForRetry
FetchAttempt ==
    \E j \in JobIds :
    LET job == jobs[j] IN
    /\ job.pc = "fetch"
    /\ IF job.attempt > opts.Retries
       THEN /\ jobs' = [jobs EXCEPT ![j].result = EmptyResult, ![j].pc = "fetched"]
            /\ UNCHANGED gets
       ELSE IF cancelled
       THEN /\ jobs' = [jobs EXCEPT ![j].result = CtxResult, ![j].pc = "fetched"]
            /\ UNCHANGED gets
       ELSE jobs' = [jobs EXCEPT ![j].pc = IF job.attempt > 0 THEN "backoff"
                                                               ELSE "request"]
    /\ UNCHANGED <<lim, builder, opts, site, cancelled, queue, visited, wg, sem, rpc, item,
                   pages, encoded, cache, gets, heads, agets>>

\* Fetch blocked in the select of waitForRetry: the timer case is taken
\* once the 100 ms are over, and then performRequest is called; the ctx.Done
\* case is taken when the context is cancelled, and then Fetch returns the
\* context error; when both are ready either may be taken
FetchBackoff ==
    \E j \in JobIds :
    /\ jobs[j].pc = "backoff"
    /\ \/ jobs' = [jobs EXCEPT ![j].pc = "request"]
       \/ /\ cancelled
          /\ jobs' = [jobs EXCEPT ![j].result = CtxResult, ![j].pc = "fetched"]
    /\ UNCHANGED <<lim, builder, opts, site, cancelled, queue, visited, wg, sem, rpc, item,
                   pages, encoded, cache, gets, heads, agets>>

\* the call of performRequest by Fetch, which does not look at the context
\* before it calls Wait or client.Do
FetchRequest ==
    \E j \in JobIds :
    /\ jobs[j].pc = "request"
    /\ PerformOrWait(j)
    /\ UNCHANGED <<lim, builder, opts, site, cancelled, queue, visited, wg, sem, rpc, item,
                   pages, encoded, cache, heads, agets>>

\* the select of rateLimiter.Wait inside performRequest: the receive from
\* the channel is taken when a tick is buffered or the channel is closed, and
\* Wait returns true; the ctx.Done case is taken when the context is
\* cancelled, and then the attempt ends with the context error; when both are
\* ready either may be taken
FetchWait ==
    \E j \in JobIds :
    LET job == jobs[j] IN
    /\ job.pc = "fwait"
    /\ \/ /\ WaitCanSucceed(lim)
          /\ lim' = AfterReceive(lim)
          /\ jobs' = [jobs EXCEPT ![j].pc = "do"]
       \/ /\ cancelled
          /\ UNCHANGED lim
          /\ IF FetchReturns(CtxResult, job.attempt, opts.Retries)
             THEN jobs' = [jobs EXCEPT ![j].result = CtxResult, ![j].pc = "fetched"]
             ELSE jobs' = [jobs EXCEPT ![j].result = CtxResult, ![j].attempt = @ + 1,
                                       ![j].pc = "fetch"]
    /\ UNCHANGED <<builder, opts, site, cancelled, queue, visited, wg, sem, rpc,
                   item, pages, encoded, cache, gets, heads, agets>>

\* performRequest after Wait returned true: the request, which is made
\* without another look at the context or at the channel
FetchDo ==
    \E j \in JobIds :
    /\ jobs[j].pc = "do"
    /\ ClientDo(j)
    /\ UNCHANGED <<lim, builder, opts, site, cancelled, queue, visited, wg, sem, rpc, item,
                   pages, encoded, cache, heads, agets>>


ShouldEnqueue_NoDepth(depth, status) == status = "ok"

\* processSingleURL: the test that guards enqueueInternalLinks
ShouldEnqueue(depth, status) == depth + 1 < opts.Depth /\ status = "ok"

AfterFetchTarget_DropFailed(result) ==
    IF result.Error # "" THEN "release"
    ELSE IF result.HTMLContent THEN "checklinks"
    ELSE "addpage"

\* processSingleURL: what follows the return of Fetch: the report of the
\* failure, the checks of an HTML page, or the report of a page without HTML
AfterFetchTarget(result) ==
    IF result.Error # "" THEN "addpage"
    ELSE IF result.HTMLContent THEN "checklinks"
    ELSE "addpage"

\* processSingleURL from the return of Fetch to the call of CheckLinks, or
\* to AddPage for a failed fetch and for an answer without HTML
AfterFetch ==
    \E j \in JobIds :
    LET job == jobs[j]
        p0 == [job.page EXCEPT !.HTTPStatus = job.result.StatusCode]
        perr == [SetPageStatus([p0 EXCEPT !.Error = job.result.Error])
                    EXCEPT !.BrokenLinks = EmptySlice, !.Assets = EmptySlice]
        pok == SetPageStatus(p0)
    IN
    /\ job.pc = "fetched"
    /\ IF job.result.Error # ""
       THEN jobs' = [jobs EXCEPT ![j].page = perr,
                                 ![j].pc = AfterFetchTarget(job.result)]
       ELSE IF job.result.HTMLContent
       THEN jobs' = [jobs EXCEPT ![j].page = pok,
                                 ![j].links = ExtractLinks(site.links[job.url], job.url),
                                 ![j].pc = AfterFetchTarget(job.result)]
       ELSE jobs' = [jobs EXCEPT
                       ![j].page = [pok EXCEPT !.BrokenLinks = EmptySlice,
                                               !.Assets = EmptySlice],
                       ![j].pc = AfterFetchTarget(job.result)]
    /\ UNCHANGED <<lim, builder, opts, site, cancelled, queue, visited, wg, sem, rpc, item,
                   pages, encoded, cache, gets, heads, agets>>

\* ----------------------------------------------------- checker.LinkChecker
LinkMaxRetries == 2

LcShouldRetry_NoUpperEnd(result) ==
    \/ result.Error # ""
    \/ result.StatusCode = 429
    \/ result.StatusCode >= 500

\* LinkChecker.shouldRetry
LcShouldRetry(result) ==
    \/ result.Error # ""
    \/ result.StatusCode = 429
    \/ (result.StatusCode >= 500 /\ result.StatusCode < 600)

\* LinkChecker.performHeadRequest: a HEAD answer carries no body
PerformHeadRequest(o) ==
    IF o.err # ""
    THEN [StatusCode |-> 0, HTMLContent |-> FALSE, Error |-> o.err]
    ELSE [StatusCode |-> o.code, HTMLContent |-> FALSE, Error |-> ""]

IsBroken_3xx(result) ==
    ~(result.StatusCode >= 200 /\ result.StatusCode < 300 /\ result.Error = "")

\* LinkChecker.checkSingleLink: the health test
IsBroken(result) ==
    ~(result.StatusCode >= 200 /\ result.StatusCode < 400 /\ result.Error = "")

\* LinkChecker.checkSingleLink: the record of a broken link
BrokenLink(u, result) ==
    IF result.Error # ""
    THEN [URL |-> u, StatusCode |-> 0, Error |-> result.Error]
    ELSE [URL |-> u, StatusCode |-> result.StatusCode, Error |-> ""]

\* CheckLinks: the early return for no links, else the channels are made
CheckLinksBegin ==
    \E j \in JobIds :
    /\ jobs[j].pc = "checklinks"
    /\ IF Len(jobs[j].links) = 0
       THEN jobs' = [jobs EXCEPT ![j].page.BrokenLinks = NilSlice,
                                 ![j].pc = "checkassets"]
       ELSE jobs' = [jobs EXCEPT ![j].fan = NoFan, ![j].idx = 1,
                                 ![j].pc = "cl_add"]
    /\ UNCHANGED <<lim, builder, opts, site, cancelled, queue, visited, wg, sem, rpc, item,
                   pages, encoded, cache, gets, heads, agets>>

\* the head of one iteration of the spawn loop of CheckLinks and of
\* CheckAssets: wg.Add(1), which never blocks
FanAdd(j, here, send) ==
    /\ jobs[j].pc = here
    /\ jobs' = [jobs EXCEPT ![j].fan.wg = @ + 1, ![j].pc = send]
    /\ UNCHANGED <<lim, builder, opts, site, cancelled, queue, visited, wg, sem, rpc, item,
                   pages, encoded, cache, gets, heads, agets>>

\* the rest of the iteration: the send on the semaphore, which blocks while
\* the channel is full, and the go statement; after the last one the closer
\* goroutine is started and the caller ranges over the result channel
FanSpawn(j, n, send, here, next) ==
    /\ jobs[j].pc = send
    /\ jobs[j].fan.sem < Workers
    /\ jobs' = [jobs EXCEPT ![j].fan.sem = @ + 1,
                            ![j].fan.probes = Append(@, NewProbe),
                            ![j].idx = @ + 1,
                            ![j].pc = IF jobs[j].idx = n THEN next ELSE here]
    /\ UNCHANGED <<lim, builder, opts, site, cancelled, queue, visited, wg, sem, rpc, item,
                   pages, encoded, cache, gets, heads, agets>>

CheckLinksAdd ==
    \E j \in JobIds : FanAdd(j, "cl_add", "cl_spawn")

CheckLinksSpawn ==
    \E j \in JobIds :
        FanSpawn(j, Len(jobs[j].links), "cl_spawn", "cl_add", "cl_collect")

\* LinkChecker.headRequest: whether the loop returns the result of this
\* attempt
HeadReturns(result, attempt) ==
    \/ (result.Error = "" /\ result.StatusCode < 500 /\ result.StatusCode # 429)
    \/ attempt = LinkMaxRetries
    \/ ~LcShouldRetry(result)

\* performHeadRequest from the request it builds to its return, and the
\* tests of the loop of headRequest on the result: the HEAD request is made,
\* ctx cancelled or not, and the loop returns its result or goes on to the
\* next attempt
ClientDoHead(j, k) ==
    LET pr == jobs[j].fan.probes[k]
        u == jobs[j].links[k]
        res == PerformHeadRequest(Answer(site.resp[u], heads[u] + 1))
    IN
    /\ heads' = [heads EXCEPT ![u] = @ + 1]
    /\ IF HeadReturns(res, pr.attempt)
       THEN jobs' = [jobs EXCEPT ![j].fan.probes[k].res = res,
                                 ![j].fan.probes[k].pc = "send"]
       ELSE jobs' = [jobs EXCEPT ![j].fan.probes[k].res = res,
                                 ![j].fan.probes[k].attempt = @ + 1,
                                 ![j].fan.probes[k].pc = "begin"]

\* the entry of performHeadRequest: with a limiter the caller enters Wait,
\* without one the HEAD request follows at once
PerformHeadOrWait(j, k) ==
    IF lim.ticker
    THEN /\ jobs' = [jobs EXCEPT ![j].fan.probes[k].pc = "hwait"]
         /\ UNCHANGED heads
    ELSE ClientDoHead(j, k)

\* the head of one iteration of the attempt loop of LinkChecker.headRequest:
\* the loop condition and the ctx test; a first attempt goes on to
\* performHeadRequest, a later attempt blocks in the select on ctx.Done and
\* time.After
LinkProbeHead ==
    \E j \in JobIds : \E k \in 1..Len(jobs[j].fan.probes) :
    LET job == jobs[j]
        pr == job.fan.probes[k]
    IN
    /\ job.pc \in {"cl_add", "cl_spawn", "cl_collect"}
    /\ pr.pc = "begin"
    /\ IF pr.attempt > LinkMaxRetries
       THEN /\ jobs' = [jobs EXCEPT ![j].fan.probes[k].res = EmptyResult,
                                    ![j].fan.probes[k].pc = "send"]
            /\ UNCHANGED heads
       ELSE IF cancelled
       THEN /\ jobs' = [jobs EXCEPT ![j].fan.probes[k].res = CtxResult,
                                    ![j].fan.probes[k].pc = "send"]
            /\ UNCHANGED heads
       ELSE jobs' = [jobs EXCEPT ![j].fan.probes[k].pc =
                        IF pr.attempt > 0 THEN "hbackoff" ELSE "hrequest"]
    /\ UNCHANGED <<lim, builder, opts, site, cancelled, queue, visited, wg, sem, rpc, item,
                   pages, encoded, cache, gets, heads, agets>>

\* headRequest blocked in the select before a later attempt: the time.After
\* case is taken once the 100 ms are over, and then performHeadRequest is
\* called; the ctx.Done case is taken when the context is cancelled, and
\* then headRequest returns the context error; when both are ready either
\* may be taken
LinkProbeBackoff ==
    \E j \in JobIds : \E k \in 1..Len(jobs[j].fan.probes) :
    /\ jobs[j].pc \in {"cl_add", "cl_spawn", "cl_collect"}
    /\ jobs[j].fan.probes[k].pc = "hbackoff"
    /\ \/ jobs' = [jobs EXCEPT ![j].fan.probes[k].pc = "hrequest"]
       \/ /\ cancelled
          /\ jobs' = [jobs EXCEPT ![j].fan.probes[k].res = CtxResult,
                                     ![j].fan.probes[k].pc = "send"]
    /\ UNCHANGED <<lim, builder, opts, site, cancelled, queue, visited, wg, sem, rpc, item,
                   pages, encoded, cache, gets, heads, agets>>

\* the call of performHeadRequest by headRequest, which does not look at the
\* context before it calls Wait or client.Do
LinkProbeRequest ==
    \E j \in JobIds : \E k \in 1..Len(jobs[j].fan.probes) :
    /\ jobs[j].pc \in {"cl_add", "cl_spawn", "cl_collect"}
    /\ jobs[j].fan.probes[k].pc = "hrequest"
    /\ PerformHeadOrWait(j, k)
    /\ UNCHANGED <<lim, builder, opts, site, cancelled, queue, visited, wg, sem, rpc, item,
                   pages, encoded, cache, gets, agets>>

\* the select of Wait inside performHeadRequest: the receive is taken when a
\* tick is buffered or the channel is closed, and Wait returns true; the
\* ctx.Done case is taken when the context is cancelled; when both are ready
\* either may be taken
HeadWait ==
    \E j \in JobIds : \E k \in 1..Len(jobs[j].fan.probes) :
    LET job == jobs[j]
        pr == job.fan.probes[k]
    IN
    /\ job.pc \in {"cl_add", "cl_spawn", "cl_collect"}
    /\ pr.pc = "hwait"
    /\ \/ /\ WaitCanSucceed(lim)
          /\ lim' = AfterReceive(lim)
          /\ jobs' = [jobs EXCEPT ![j].fan.probes[k].pc = "hdo"]
       \/ /\ cancelled
          /\ UNCHANGED lim
          /\ IF HeadReturns(CtxResult, pr.attempt)
             THEN jobs' = [jobs EXCEPT ![j].fan.probes[k].res = CtxResult,
                                       ![j].fan.probes[k].pc = "send"]
             ELSE jobs' = [jobs EXCEPT ![j].fan.probes[k].res = CtxResult,
                                       ![j].fan.probes[k].attempt = @ + 1,
                                       ![j].fan.probes[k].pc = "begin"]
    /\ UNCHANGED <<builder, opts, site, cancelled, queue, visited, wg, sem, rpc,
                   item, pages, encoded, cache, gets, heads, agets>>

\* performHeadRequest after Wait returned true: the HEAD request, which is
\* made without another look at the context or at the channel
LinkProbeDo ==
    \E j \in JobIds : \E k \in 1..Len(jobs[j].fan.probes) :
    /\ jobs[j].pc \in {"cl_add", "cl_spawn", "cl_collect"}
    /\ jobs[j].fan.probes[k].pc = "hdo"
    /\ ClientDoHead(j, k)
    /\ UNCHANGED <<lim, builder, opts, site, cancelled, queue, visited, wg, sem, rpc, item,
                   pages, encoded, cache, gets, agets>>

\* the probe goroutine of CheckLinks after checkSingleLink returned: a
\* broken link is sent on resultChan
LinkProbeSend ==
    \E j \in JobIds : \E k \in 1..Len(jobs[j].fan.probes) :
    LET job == jobs[j]
        pr == job.fan.probes[k]
    IN
    /\ job.pc \in {"cl_add", "cl_spawn", "cl_collect"}
    /\ pr.pc = "send"
    /\ jobs' = [jobs EXCEPT
                  ![j].fan.chan = IF IsBroken(pr.res)
                                  THEN Append(@, BrokenLink(job.links[k], pr.res))
                                  ELSE @,
                  ![j].fan.probes[k].pc = "release"]
    /\ UNCHANGED <<lim, builder, opts, site, cancelled, queue, visited, wg, sem, rpc, item,
                   pages, encoded, cache, gets, heads, agets>>

\* a probe goroutine's deferred receive from the semaphore
ProbeRelease ==
    \E j \in JobIds : \E k \in 1..Len(jobs[j].fan.probes) :
    /\ jobs[j].fan.probes[k].pc = "release"
    /\ jobs' = [jobs EXCEPT ![j].fan.sem = @ - 1,
                            ![j].fan.probes[k].pc = "done"]
    /\ UNCHANGED <<lim, builder, opts, site, cancelled, queue, visited, wg, sem, rpc, item,
                   pages, encoded, cache, gets, heads, agets>>

\* a probe goroutine's deferred wg.Done
ProbeDone ==
    \E j \in JobIds : \E k \in 1..Len(jobs[j].fan.probes) :
    /\ jobs[j].fan.probes[k].pc = "done"
    /\ jobs' = [jobs EXCEPT ![j].fan.wg = @ - 1,
                            ![j].fan.probes[k] = [NewProbe EXCEPT !.pc = "exit"]]
    /\ UNCHANGED <<lim, builder, opts, site, cancelled, queue, visited, wg, sem, rpc, item,
                   pages, encoded, cache, gets, heads, agets>>

FanDrained_Early(fan) == TRUE

\* wg.Wait of the closer goroutine returns: every probe has called wg.Done
FanDrained(fan) == fan.wg = 0

\* the closer goroutine: wg.Wait, then close(resultChan)
FanClose ==
    \E j \in JobIds :
    /\ jobs[j].pc \in {"cl_collect", "ca_collect"}
    /\ FanDrained(jobs[j].fan)
    /\ ~jobs[j].fan.closed
    /\ jobs' = [jobs EXCEPT ![j].fan.closed = TRUE]
    /\ UNCHANGED <<lim, builder, opts, site, cancelled, queue, visited, wg, sem, rpc, item,
                   pages, encoded, cache, gets, heads, agets>>

\* CheckLinks: one receive of the range over resultChan, or its end when
\* the channel is closed and drained
CheckLinksCollect ==
    \E j \in JobIds :
    LET fan == jobs[j].fan IN
    /\ jobs[j].pc = "cl_collect"
    /\ IF fan.chan # <<>>
       THEN jobs' = [jobs EXCEPT ![j].fan.out = Append(@, Head(fan.chan)),
                                 ![j].fan.chan = Tail(@)]
       ELSE /\ fan.closed
            /\ jobs' = [jobs EXCEPT ![j].page.BrokenLinks = Slice(fan.out),
                                    ![j].fan = NoFan,
                                    ![j].pc = "checkassets"]
    /\ UNCHANGED <<lim, builder, opts, site, cancelled, queue, visited, wg, sem, rpc, item,
                   pages, encoded, cache, gets, heads, agets>>


\* ---------------------------------------------------- checker.AssetChecker
\* the text of fmt.Errorf("HTTP %d", code)
HttpError(code) == "HTTP " \o ToString(code)

FetchAsset_NoHttpError(o) ==
    IF o.err # ""
    THEN [StatusCode |-> 0, SizeBytes |-> 0, Error |-> o.err]
    ELSE [StatusCode |-> o.code,
          SizeBytes |-> IF o.clen >= 0 THEN o.clen ELSE o.blen,
          Error |-> ""]

\* AssetChecker.fetchAsset: the AssetResult built from the client's answer
FetchAsset(o) ==
    IF o.err # ""
    THEN [StatusCode |-> 0, SizeBytes |-> 0, Error |-> o.err]
    ELSE IF o.code >= 400
    THEN [StatusCode |-> o.code, SizeBytes |-> 0, Error |-> HttpError(o.code)]
    ELSE [StatusCode |-> o.code,
          SizeBytes |-> IF o.clen >= 0 THEN o.clen ELSE o.blen,
          Error |-> ""]

\* the order of the asset types as strings
TypeRank(t) ==
    CASE t = "image" -> 1
      [] t = "script" -> 2
      [] t = "style" -> 3
      [] OTHER -> 0

RECURSIVE InsertByType_Unstable(_, _)
InsertByType_Unstable(s, a) ==
    IF s = <<>> THEN <<a>>
    ELSE IF TypeRank(a.Type) <= TypeRank(Head(s).Type) THEN <<a>> \o s
    ELSE <<Head(s)>> \o InsertByType_Unstable(Tail(s), a)

\* sort.SliceStable by Type
RECURSIVE InsertByType(_, _)
InsertByType(s, a) ==
    IF s = <<>> THEN <<a>>
    ELSE IF TypeRank(a.Type) < TypeRank(Head(s).Type) THEN <<a>> \o s
    ELSE <<Head(s)>> \o InsertByType(Tail(s), a)

RECURSIVE SortByType(_)
SortByType(s) ==
    IF s = <<>> THEN <<>>
    ELSE InsertByType(SortByType(SubSeq(s, 1, Len(s) - 1)), s[Len(s)])

\* CheckAssets: results[index] of the map filled from the channel
ResultAt(out, i) ==
    IF \E n \in 1..Len(out) : out[n].index = i
    THEN out[CHOOSE n \in 1..Len(out) :
                /\ out[n].index = i
                /\ \A m \in 1..Len(out) : out[m].index = i => m <= n].asset
    ELSE NoAsset

\* processSingleURL after CheckAssets returned
AfterChecks(job, status) ==
    IF ShouldEnqueue(job.depth, status) THEN "enqueue" ELSE "addpage"

\* CheckAssets: ExtractAssets and the early return for no assets
CheckAssetsBegin ==
    \E j \in JobIds :
    LET job == jobs[j] IN
    /\ job.pc = "checkassets"
    /\ IF Len(site.assets[job.url]) = 0
       THEN jobs' = [jobs EXCEPT ![j].page.Assets = EmptySlice,
                                 ![j].idx = 1,
                                 ![j].pc = AfterChecks(job, job.page.Status)]
       ELSE jobs' = [jobs EXCEPT ![j].fan = NoFan, ![j].idx = 1,
                                 ![j].pc = "ca_add"]
    /\ UNCHANGED <<lim, builder, opts, site, cancelled, queue, visited, wg, sem, rpc, item,
                   pages, encoded, cache, gets, heads, agets>>

CheckAssetsAdd ==
    \E j \in JobIds : FanAdd(j, "ca_add", "ca_spawn")

CheckAssetsSpawn ==
    \E j \in JobIds :
        FanSpawn(j, Len(site.assets[jobs[j].url]), "ca_spawn", "ca_add",
                 "ca_collect")

\* checkSingleAsset: the cache lookup under the read lock
AssetProbeLookup ==
    \E j \in JobIds : \E k \in 1..Len(jobs[j].fan.probes) :
    LET job == jobs[j]
        a == site.assets[job.url][k].URL
    IN
    /\ job.pc \in {"ca_add", "ca_spawn", "ca_collect"}
    /\ job.fan.probes[k].pc = "begin"
    /\ IF a \in DOMAIN cache
       THEN jobs' = [jobs EXCEPT ![j].fan.probes[k].asset = cache[a],
                                 ![j].fan.probes[k].pc = "send"]
       ELSE jobs' = [jobs EXCEPT ![j].fan.probes[k].pc = "fetch"]
    /\ UNCHANGED <<lim, builder, opts, site, cancelled, queue, visited, wg, sem, rpc, item,
                   pages, encoded, cache, gets, heads, agets>>

\* checkSingleAsset: the Asset built from the result of fetchAsset
AssetOf(info, r) ==
    [URL |-> info.URL, Type |-> info.AssetType, StatusCode |-> r.StatusCode,
     SizeBytes |-> r.SizeBytes, Error |-> r.Error]

\* fetchAsset: AssetResult{Error: ctx.Err()}
CtxAssetResult == [StatusCode |-> 0, SizeBytes |-> 0, Error |-> "context canceled"]

\* fetchAsset from the request it builds to its return, and the Asset that
\* checkSingleAsset builds from its result: the GET request is made, ctx
\* cancelled or not
ClientDoAsset(j, k) ==
    LET info == site.assets[jobs[j].url][k]
        r == FetchAsset(Answer(site.aresp[info.URL], agets[info.URL] + 1))
    IN
    /\ agets' = [agets EXCEPT ![info.URL] = @ + 1]
    /\ jobs' = [jobs EXCEPT ![j].fan.probes[k].asset = AssetOf(info, r),
                            ![j].fan.probes[k].pc = "store"]

\* checkSingleAsset: the call of fetchAsset, which tests the context nowhere
\* but in Wait. Without a limiter the request is made; with a limiter the
\* caller enters Wait, whatever the context says.
AssetProbeFetch ==
    \E j \in JobIds : \E k \in 1..Len(jobs[j].fan.probes) :
    LET job == jobs[j] IN
    /\ job.pc \in {"ca_add", "ca_spawn", "ca_collect"}
    /\ job.fan.probes[k].pc = "fetch"
    /\ IF ~lim.ticker
       THEN ClientDoAsset(j, k)
       ELSE /\ jobs' = [jobs EXCEPT ![j].fan.probes[k].pc = "await"]
            /\ UNCHANGED agets
    /\ UNCHANGED <<lim, builder, opts, site, cancelled, queue, visited, wg, sem, rpc, item,
                   pages, encoded, cache, gets, heads>>

\* the select of Wait inside fetchAsset: the receive is taken when a tick is
\* buffered or the channel is closed, and Wait returns true; the ctx.Done
\* case is taken when the context is cancelled, and then the result is the
\* context error; when both are ready either may be taken
AssetWait ==
    \E j \in JobIds : \E k \in 1..Len(jobs[j].fan.probes) :
    LET job == jobs[j]
        info == site.assets[job.url][k]
    IN
    /\ job.pc \in {"ca_add", "ca_spawn", "ca_collect"}
    /\ job.fan.probes[k].pc = "await"
    /\ \/ /\ WaitCanSucceed(lim)
          /\ lim' = AfterReceive(lim)
          /\ jobs' = [jobs EXCEPT ![j].fan.probes[k].pc = "ado"]
       \/ /\ cancelled
          /\ UNCHANGED lim
          /\ jobs' = [jobs EXCEPT
                        ![j].fan.probes[k].asset = AssetOf(info, CtxAssetResult),
                        ![j].fan.probes[k].pc = "store"]
    /\ UNCHANGED <<builder, opts, site, cancelled, queue, visited, wg, sem, rpc,
                   item, pages, encoded, cache, gets, heads, agets>>

\* fetchAsset after Wait returned true: the GET request, which is made
\* without another look at the context or at the channel
AssetProbeDo ==
    \E j \in JobIds : \E k \in 1..Len(jobs[j].fan.probes) :
    /\ jobs[j].pc \in {"ca_add", "ca_spawn", "ca_collect"}
    /\ jobs[j].fan.probes[k].pc = "ado"
    /\ ClientDoAsset(j, k)
    /\ UNCHANGED <<lim, builder, opts, site, cancelled, queue, visited, wg, sem, rpc, item,
                   pages, encoded, cache, gets, heads>>

\* checkSingleAsset: the cache write under the write lock
AssetProbeStore ==
    \E j \in JobIds : \E k \in 1..Len(jobs[j].fan.probes) :
    LET job == jobs[j]
        as == job.fan.probes[k].asset
    IN
    /\ job.pc \in {"ca_add", "ca_spawn", "ca_collect"}
    /\ job.fan.probes[k].pc = "store"
    /\ cache' = [x \in DOMAIN cache \cup {as.URL} |->
                    IF x = as.URL THEN as ELSE cache[x]]
    /\ jobs' = [jobs EXCEPT ![j].fan.probes[k].pc = "send"]
    /\ UNCHANGED <<lim, builder, opts, site, cancelled, queue, visited, wg, sem, rpc, item,
                   pages, encoded, gets, heads, agets>>

\* the probe goroutine of CheckAssets: the send on resultChan
AssetProbeSend ==
    \E j \in JobIds : \E k \in 1..Len(jobs[j].fan.probes) :
    LET job == jobs[j] IN
    /\ job.pc \in {"ca_add", "ca_spawn", "ca_collect"}
    /\ job.fan.probes[k].pc = "send"
    /\ jobs' = [jobs EXCEPT
                  ![j].fan.chan = Append(@, [asset |-> job.fan.probes[k].asset,
                                             index |-> k]),
                  ![j].fan.probes[k].pc = "release"]
    /\ UNCHANGED <<lim, builder, opts, site, cancelled, queue, visited, wg, sem, rpc, item,
                   pages, encoded, cache, gets, heads, agets>>

\* CheckAssets: one receive of the range over resultChan, or, when the
\* channel is closed and drained, the rebuild in discovery order and the
\* stable sort by type
CheckAssetsCollect ==
    \E j \in JobIds :
    LET job == jobs[j]
        fan == job.fan
        n == Len(site.assets[job.url])
        assets == [i \in 1..n |-> ResultAt(fan.out, i)]
    IN
    /\ job.pc = "ca_collect"
    /\ IF fan.chan # <<>>
       THEN jobs' = [jobs EXCEPT ![j].fan.out = Append(@, Head(fan.chan)),
                                 ![j].fan.chan = Tail(@)]
       ELSE /\ fan.closed
            /\ jobs' = [jobs EXCEPT ![j].page.Assets = Slice(SortByType(assets)),
                                    ![j].fan = NoFan,
                                    ![j].idx = 1,
                                    ![j].pc = AfterChecks(job, job.page.Status)]
    /\ UNCHANGED <<lim, builder, opts, site, cancelled, queue, visited, wg, sem, rpc, item,
                   pages, encoded, cache, gets, heads, agets>>

\* ------------------------------------------- enqueueInternalLinks, AddPage
\* one iteration of the loop of enqueueInternalLinks
EnqueueScan ==
    \E j \in JobIds :
    LET job == jobs[j]
        link == job.links[job.idx]
    IN
    /\ job.pc = "enqueue"
    /\ job.idx <= Len(job.links)
    /\ jobs' = [jobs EXCEPT
                  ![j].toAdd = IF IsSameDomain(link) /\ ~Contains(visited, link)
                               THEN Append(@, [URL |-> link, Depth |-> job.depth + 1])
                               ELSE @,
                  ![j].idx = @ + 1]
    /\ UNCHANGED <<lim, builder, opts, site, cancelled, queue, visited, wg, sem, rpc, item,
                   pages, encoded, cache, gets, heads, agets>>

Enqueue_Front(q, urls) == urls \o q

\* URLQueue.Enqueue
Enqueue(q, urls) == q \o urls

\* the end of enqueueInternalLinks: Queue.Enqueue(toAdd) if there is any
EnqueuePush ==
    \E j \in JobIds :
    LET job == jobs[j] IN
    /\ job.pc = "enqueue"
    /\ job.idx > Len(job.links)
    /\ queue' = IF Len(job.toAdd) > 0 THEN Enqueue(queue, job.toAdd) ELSE queue
    /\ jobs' = [jobs EXCEPT ![j].pc = "addpage"]
    /\ UNCHANGED <<lim, builder, opts, site, cancelled, visited, wg, sem, rpc, item, pages,
                   encoded, cache, gets, heads, agets>>

\* reportBuilder.AddPage(page)
AddPage ==
    \E j \in JobIds :
    /\ jobs[j].pc = "addpage"
    /\ pages' = Append(pages, AddPageFix(jobs[j].page))
    /\ jobs' = [jobs EXCEPT ![j].pc = "release"]
    /\ UNCHANGED <<lim, builder, opts, site, cancelled, queue, visited, wg, sem, rpc, item,
                   encoded, cache, gets, heads, agets>>

ReleaseSlot_Leak(n) == n

\* the receive from Semaphore: one token less in the channel
ReleaseSlot(n) == n - 1

\* the worker's deferred receive from Semaphore
WorkerRelease ==
    \E j \in JobIds :
    /\ jobs[j].pc = "release"
    /\ sem' = ReleaseSlot(sem)
    /\ jobs' = [jobs EXCEPT ![j].pc = "wgdone"]
    /\ UNCHANGED <<lim, builder, opts, site, cancelled, queue, visited, wg, rpc, item, pages,
                   encoded, cache, gets, heads, agets>>

\* the worker's deferred WG.Done
WorkerDone ==
    \E j \in JobIds :
    /\ jobs[j].pc = "wgdone"
    /\ wg' = wg - 1
    /\ jobs' = [jobs EXCEPT ![j] = ExitedJob(jobs[j])]
    /\ UNCHANGED <<lim, builder, opts, site, cancelled, queue, visited, sem, rpc, item, pages,
                   encoded, cache, gets, heads, agets>>


\* ------------------------------------------------------------- the sites
\* the anchors of a page that spell the given URLs in full
Anchors(urls) == [i \in 1..Len(urls) |-> Abs(urls[i])]

\* the href values of the anchors of each page, given as the URLs they name
LinksOf(r, a, b, c) ==
    [u \in Urls |-> CASE u = Root -> Anchors(r)
                      [] u = PageA -> Anchors(a)
                      [] u = PageB -> Anchors(b)
                      [] u = PageC -> Anchors(c)
                      [] OTHER -> <<>>]

AssetsOf(r, a) ==
    [u \in Urls |-> CASE u = Root -> r
                      [] u = PageA -> a
                      [] OTHER -> <<>>]

AssetInfo(u, t) == [URL |-> u, AssetType |-> t]
AssetResp(code, clen, blen) == [err |-> "", code |-> code, clen |-> clen, blen |-> blen]

AllOk == [u \in Urls |-> <<OkHtml>>]
NoAssets == [u \in Urls |-> <<>>]
AssetsOk == [a \in AssetUrls |-> IF a = Img THEN <<AssetResp(200, 5, 5)>>
                                            ELSE <<AssetResp(200, -1, 7)>>]

Site(links, assets, resp) ==
    [links |-> links, assets |-> assets, resp |-> resp, aresp |-> AssetsOk]

\* link graphs in which every page answers 200 with HTML
\* the root links to PageA twice
DupLinkSite == Site(LinksOf(<<PageA, PageA>>, <<>>, <<>>, <<>>), NoAssets, AllOk)

\* PageB is linked from the root and from PageA, PageC only from PageB
DiamondSite ==
    Site(LinksOf(<<PageA, PageB>>, <<PageB>>, <<PageC>>, <<>>), NoAssets, AllOk)

\* PageA links back to the root; the root also links to another host
CycleSite == Site(LinksOf(<<PageA, Ext>>, <<Root>>, <<>>, <<>>), NoAssets, AllOk)

\* the root and PageA share an image
AssetSite ==
    Site(LinksOf(<<PageA>>, <<>>, <<>>, <<>>),
         AssetsOf(<<AssetInfo(Js, "script"), AssetInfo(Img, "image")>>,
                  <<AssetInfo(Img, "image")>>), AllOk)

\* the longest chain of links in DiamondSite: Root, PageA, PageB, PageC
DiamondDepth == 3

GraphSites == {DupLinkSite, DiamondSite, CycleSite, AssetSite}

\* the root links to three pages, to the first of them twice; none of the
\* three answers with HTML
WideSite ==
    Site(LinksOf(<<PageA, PageB, PageC, PageA>>, <<>>, <<>>, <<>>), NoAssets,
         [u \in Urls |-> IF u = Root THEN <<OkHtml>> ELSE <<Resp(200, FALSE)>>])

\* the anchors of the root: seven that are skipped, a path that names PageA
\* and the URL of PageB with a fragment; PageB answers 404
IgnoredLinksSite ==
    [links |-> [LinksOf(<<>>, <<>>, <<>>, <<>>) EXCEPT ![Root] =
                   << <<>>,
                      <<"#", "top">>,
                      <<"javascript", ":", "void(0)">>,
                      <<"JavaScript", ":", "void(0)">>,
                      <<"mailto", ":", "user">>,
                      <<"tel", ":", "+1">>,
                      <<"ftp", ":", "//", "example.com", "/f">>,
                      <<"/a">>,
                      <<"https", ":", "//", "example.com", "/c", "#", "top">> >>],
     assets |-> NoAssets,
     resp |-> [AllOk EXCEPT ![PageB] = <<Resp(404, TRUE)>>],
     aresp |-> AssetsOk]

\* the root, with a link, a script and an image, never answers
RootDownSite == [AssetSite EXCEPT !.resp[Root] = <<TransportErr>>]

\* a transport error as the answer to an asset request
AssetTransportErr == [err |-> "transport error", code |-> 0, clen |-> 0, blen |-> 0]

\* the root shows an image that cannot be fetched and links to PageA, which
\* never answers, and to PageB; PageB links to PageC, which answers 500
FailingSite ==
    [links |-> LinksOf(<<PageA, PageB>>, <<>>, <<PageC>>, <<>>),
     assets |-> AssetsOf(<<AssetInfo(Img, "image")>>, <<>>),
     resp |-> [AllOk EXCEPT ![PageA] = <<TransportErr>>,
                            ![PageC] = <<Resp(500, FALSE)>>],
     aresp |-> [AssetsOk EXCEPT ![Img] = <<AssetTransportErr>>]]

\* a single page with an image that answers 404 and a script whose request
\* fails in transport; a second request for either would be answered 200
BrokenAssetsSite ==
    [links |-> LinksOf(<<>>, <<>>, <<>>, <<>>),
     assets |-> AssetsOf(<<AssetInfo(Js, "script"), AssetInfo(Img, "image")>>, <<>>),
     resp |-> AllOk,
     aresp |-> [AssetsOk EXCEPT
                  ![Img] = <<AssetResp(404, 9, 9), AssetResp(200, 5, 5)>>,
                  ![Js] = <<AssetTransportErr, AssetResp(200, -1, 7)>>]]

\* a single page with a script tag for the script, a script tag for the
\* image and an img tag for the image, in this order; the image answers 404
MixedAssetsSite ==
    [links |-> LinksOf(<<>>, <<>>, <<>>, <<>>),
     assets |-> AssetsOf(<<AssetInfo(Js, "script"), AssetInfo(Img, "script"),
                           AssetInfo(Img, "image")>>, <<>>),
     resp |-> AllOk,
     aresp |-> [AssetsOk EXCEPT ![Img] = <<AssetResp(404, 9, 9)>>]]

\* the root links to PageA, whose every answer is 500
LinkRetrySite ==
    Site(LinksOf(<<PageA>>, <<>>, <<>>, <<>>), NoAssets,
         [AllOk EXCEPT ![PageA] = <<Resp(500, FALSE)>>])

\* a single page whose first request is answered 500 and the second 200
RetrySite ==
    Site(LinksOf(<<>>, <<>>, <<>>, <<>>), NoAssets,
         [AllOk EXCEPT ![Root] = <<Resp(500, FALSE), OkHtml>>])

\* PageA and PageB, both linked from the root, show the same image
SharedAssetSite ==
    Site(LinksOf(<<PageA, PageB>>, <<>>, <<>>, <<>>),
         [NoAssets EXCEPT ![PageA] = <<AssetInfo(Img, "image")>>,
                          ![PageB] = <<AssetInfo(Img, "image")>>], AllOk)

\* PageA and PageB show the same image; its first request is answered 500,
\* the later ones 200
FlakyAssetSite ==
    [SharedAssetSite EXCEPT
       !.aresp[Img] = <<AssetResp(500, 0, 0), AssetResp(200, 5, 5)>>]

\* the answers a page or a link target can give
Answers ==
    { TransportErr, OkHtml, Resp(200, FALSE), Resp(301, FALSE), Resp(404, TRUE),
      Resp(429, FALSE), Resp(500, FALSE), Resp(599, FALSE), Resp(600, FALSE) }

\* Root links to PageA and PageB, PageA links to PageC; PageA answers anything
AnswerSites ==
    { Site(LinksOf(<<PageA, PageB>>, <<PageC>>, <<>>, <<>>), NoAssets,
           [AllOk EXCEPT ![PageA] = <<o>>]) : o \in Answers }

\* a transport that fails n times and then answers 200
RECURSIVE Fails(_)
Fails(n) == IF n = 0 THEN <<>> ELSE <<TransportErr>> \o Fails(n - 1)

\* a single page without links whose answers change from request to request
FetchSites ==
    { Site(LinksOf(<<>>, <<>>, <<>>, <<>>), NoAssets, [AllOk EXCEPT ![Root] = s]) :
        s \in { Fails(n) \o <<Resp(200, FALSE)>> : n \in 1..MaxFail }
              \cup { <<o>> : o \in Answers }
              \cup { <<o1, o2>> : o1 \in Answers, o2 \in Answers } }

\* the URL given to Analyze in most crawls
RootHref == <<"https", ":", "//", "example.com", "/b">>

\* crawler.Options; Delay is in units of the pacing interval
Options(d, c, r) ==
    [URL |-> RootHref, Depth |-> d, Concurrency |-> c, Retries |-> r, Delay |-> 0]

\* URLs that Analyze must refuse: "", "https://", "/b", "https:///b",
\* "://example.com" and "not a url"
BadRootInputs ==
    { <<>>,
      <<"https", ":", "//">>,
      <<"/b">>,
      <<"https", ":", "//", "/b">>,
      <<":", "//", "example.com">>,
      <<"not a url">> }

\* the root URL written without a scheme: "example.com/b"
BareRootHref == <<"example.com", "/b">>

Scenarios ==
    { [site |-> s, opts |-> Options(d, c, 1)] :
        s \in GraphSites \ {DiamondSite}, d \in 0..MaxDepthOpt,
        c \in 1..MaxWorkersOpt }
    \cup { [site |-> DiamondSite, opts |-> Options(d, c, 1)] :
        d \in 0..DiamondDepth, c \in 1..MaxWorkersOpt }
    \cup { [site |-> s, opts |-> Options(MaxDepthOpt, c, 1)] :
        s \in AnswerSites, c \in 1..MaxWorkersOpt }
    \cup { [site |-> s, opts |-> Options(0, 1, r)] :
        s \in FetchSites, r \in 0..MaxFail }
    \cup { [site |-> s, opts |-> Options(MaxDepthOpt, c, 1)] :
        s \in {SharedAssetSite, FlakyAssetSite, IgnoredLinksSite, RootDownSite,
               FailingSite},
        c \in 1..MaxWorkersOpt }
    \cup { [site |-> AssetSite,
            opts |-> [Options(MaxDepthOpt, 1, 1) EXCEPT !.URL = u, !.Delay = d]] :
        u \in BadRootInputs, d \in 0..1 }
    \cup { [site |-> AssetSite,
            opts |-> [Options(MaxDepthOpt, 1, 1) EXCEPT !.URL = BareRootHref]] }
    \cup { [site |-> BrokenAssetsSite, opts |-> Options(MaxDepthOpt, c, MaxFail)] :
        c \in 1..MaxWorkersOpt }
    \cup { [site |-> LinkRetrySite, opts |-> Options(1, 1, r)] : r \in 0..MaxFail }
    \cup { [site |-> MixedAssetsSite, opts |-> Options(1, c, 0)] :
        c \in 1..MaxWorkersOpt }
    \cup { [site |-> RetrySite, opts |-> Options(1, 1, -1)] }

\* ------------------------------------------------------------------ Spec
\* the state when Analyze is called
InitCtx(scenarios, ctxs) ==
    /\ \E sc \in scenarios : site = sc.site /\ opts = sc.opts
    /\ cancelled \in ctxs
    /\ queue = <<>>
    /\ visited = {}
    /\ wg = 0
    /\ sem = 0
    /\ rpc = "analyze"
    /\ item = NoItem
    /\ jobs = <<>>
    /\ pages = <<>>
    /\ encoded = <<>>
    /\ cache = [a \in {} |-> NoAsset]
    /\ gets = [u \in Urls |-> 0]
    /\ heads = [u \in Urls |-> 0]
    /\ agets = [a \in AssetUrls |-> 0]
    /\ lim = NoLimiter
    /\ builder = NoReport

\* Analyze called with a context that is not cancelled
InitWith(scenarios) == InitCtx(scenarios, {FALSE})

Init == InitWith(Scenarios)

Next ==
    \/ Analyze
    \/ RunLoop
    \/ RunDequeue
    \/ RunJoin
    \/ RunAdd
    \/ RunSpawn
    \/ RunFinal
    \/ Encode
    \/ WorkerStart
    \/ WorkerMark
    \/ FetchAttempt
    \/ FetchBackoff
    \/ FetchRequest
    \/ AfterFetch
    \/ CheckLinksBegin
    \/ CheckLinksAdd
    \/ CheckLinksSpawn
    \/ LinkProbeHead
    \/ LinkProbeBackoff
    \/ LinkProbeRequest
    \/ LinkProbeSend
    \/ CheckLinksCollect
    \/ CheckAssetsBegin
    \/ CheckAssetsAdd
    \/ CheckAssetsSpawn
    \/ AssetProbeLookup
    \/ AssetProbeFetch
    \/ AssetProbeStore
    \/ AssetProbeSend
    \/ CheckAssetsCollect
    \/ ProbeRelease
    \/ ProbeDone
    \/ FanClose
    \/ EnqueueScan
    \/ EnqueuePush
    \/ AddPage
    \/ WorkerRelease
    \/ WorkerDone

Spec == Init /\ [][Next]_vars

\* the crawls checked for termination: DiamondSite with one worker; the
\* other graph sites at every depth with MaxWorkersOpt workers and at
\* MaxLiveDepth with 1..MaxWorkersOpt; and, with two workers, which is as
\* many as their two links a page can keep busy, the sites whose PageA
\* answers with a transport error, with a status that is retried and with
\* a status that is not
LiveScenarios ==
    { [site |-> s, opts |-> Options(d, MaxWorkersOpt, 1)] :
        s \in GraphSites \ {DiamondSite}, d \in 0..MaxLiveDepth }
    \cup { [site |-> s, opts |-> Options(MaxLiveDepth, c, 1)] :
        s \in GraphSites \ {DiamondSite}, c \in 1..MaxWorkersOpt }
    \cup { [site |-> DiamondSite, opts |-> Options(d, 1, 1)] : d \in 0..MaxLiveDepth }
    \cup { [site |-> Site(LinksOf(<<PageA, PageB>>, <<PageC>>, <<>>, <<>>), NoAssets,
                          [AllOk EXCEPT ![PageA] = <<o>>]),
            opts |-> Options(MaxLiveDepth, 2, 1)] :
        o \in {TransportErr, Resp(500, FALSE), Resp(404, TRUE)} }

LiveInit == InitWith(LiveScenarios)

\* the scheduler runs every goroutine that can take a step, and every HTTP
\* call returns: a step that stays possible is eventually taken
FairSpec == LiveInit /\ [][Next]_vars /\ WF_vars(Next)


\* the crawls checked for the worker limit: a limit of 0 and of -1, which
\* normalizeOptions replaces by 4, on a root with four links and on a root
\* with two, and limits of 1..MaxWorkersOpt on sites with links, assets and
\* answers that are retried
LimitScenarios ==
    { [site |-> WideSite, opts |-> Options(2, 0, 0)],
      [site |-> DupLinkSite, opts |-> Options(2, -1, 0)] }
    \cup { [site |-> s, opts |-> Options(2, c, 1)] :
        s \in {DupLinkSite, AssetSite, RetrySite, LinkRetrySite},
        c \in 1..MaxWorkersOpt }

LimitInit == InitWith(LimitScenarios)

LimitSpec == LimitInit /\ [][Next]_vars

\* ------------------------------------------------ crawls that are cancelled
\* the root shows an image and links to PageA
CancelSite ==
    Site(LinksOf(<<PageA>>, <<>>, <<>>, <<>>),
         AssetsOf(<<AssetInfo(Img, "image")>>, <<>>), AllOk)

\* crawls with and without a pacing delay, a fetch that is retried once, a
\* page that is in the queue twice, and a link that is probed three times
CancelScenarios ==
    { [site |-> CancelSite, opts |-> [Options(2, c, 0) EXCEPT !.Delay = d]] :
        c \in 1..MaxCancelWorkers, d \in 0..1 }
    \cup { [site |-> RetrySite, opts |-> [Options(2, 1, 1) EXCEPT !.Delay = d]] :
        d \in 0..1 }
    \cup { [site |-> DupLinkSite, opts |-> Options(2, 2, 0)] }
    \cup { [site |-> LinkRetrySite, opts |-> [Options(1, 1, 0) EXCEPT !.Delay = d]] :
        d \in 0..1 }

\* Analyze called with a context that is cancelled already, or not yet
CancelInit == InitCtx(CancelScenarios, BOOLEAN)

CancelNext ==
    \/ Next
    \/ Cancel
    \/ LimiterTick
    \/ LimiterStop
    \/ FetchWait
    \/ FetchDo
    \/ HeadWait
    \/ LinkProbeDo
    \/ AssetWait
    \/ AssetProbeDo

\* the crawl with a caller that may cancel at any moment
CancelSpec == CancelInit /\ [][CancelNext]_vars

\* ---------------------------------------------------------------- claims
\* a worker that passed the visited check of processSingleURL and has not
\* yet appended its page
Admitted(j) ==
    jobs[j].pc \notin {"start", "release", "wgdone", "exit"}

\* C1: no URL is admitted by the visited check-and-mark for two workers, and
\* no URL appears in two PageRecords.
C1_AtMostOnceFetch ==
    /\ \A i \in 1..Len(pages) : \A k \in 1..Len(pages) :
          i # k => pages[i].URL # pages[k].URL
    /\ \A i \in JobIds : \A k \in JobIds :
          (i # k /\ Admitted(i) /\ Admitted(k)) => jobs[i].url # jobs[k].url

\* C2: under fair scheduling Run returns, and when it has returned the
\* in-flight counter is zero and no semaphore slot is held.
C2_RunTerminates ==
    /\ <>(rpc = "done")
    /\ [](rpc = "done" => (wg = 0 /\ sem = 0))

C2_Witness ==
    /\ rpc = "done"
    /\ wg = 0
    /\ opts.Concurrency = 2
    /\ Len(jobs) >= 3
    /\ \A j \in JobIds : jobs[j].pc = "exit"
    /\ \E i \in 1..Len(pages) : Len(pages[i].BrokenLinks.items) > 0

\* C3: without cancellation Run is done only when the frontier is empty and
\* every worker has returned, so an entry enqueued during the join is dequeued.
C3_DoneIsQuiescent ==
    (rpc = "done" /\ ~cancelled) =>
        /\ IsEmpty(queue)
        /\ wg = 0
        /\ \A j \in JobIds : jobs[j].pc = "exit"

\* the join of Run has ended and finds an entry enqueued meanwhile
C3_Witness ==
    /\ rpc = "wait"
    /\ wg = 0
    /\ ~IsEmpty(queue)
    /\ ~cancelled

\* C4: no PageRecord and no frontier entry is deeper than the configured
\* depth, and a page processed at the configured depth enqueues nothing.
C4_DepthBound ==
    /\ \A i \in 1..Len(pages) : pages[i].Depth <= opts.Depth
    /\ \A i \in 1..Len(queue) : queue[i].Depth <= opts.Depth
    /\ \A j \in JobIds :
          jobs[j].depth = opts.Depth =>
              (jobs[j].pc # "enqueue" /\ jobs[j].toAdd = <<>>)

\* a page with links was processed at the configured depth
C4_Witness ==
    /\ Len(pages) > 0
    /\ pages[1].Depth = opts.Depth
    /\ pages[1].Status = "ok"
    /\ Len(site.links[pages[1].URL]) > 0
    /\ jobs[1].pc = "exit"

\* C5: with depth 0 the report holds exactly one PageRecord, the root at
\* depth 0.
C5_DepthZeroOnlyRoot ==
    (opts.Depth = 0 /\ rpc = "returned") =>
        /\ Len(encoded) = 1
        /\ encoded[1].URL = Root
        /\ encoded[1].Depth = 0

C5_Witness ==
    /\ opts.Depth = 0
    /\ rpc = "returned"
    /\ opts.Concurrency = 2
    /\ Len(site.links[Root]) = 2
    /\ Len(encoded) = 1
    /\ encoded[1].Status = "ok"


\* the page answers every request with a 2xx status and an HTML body
PageIsOkHtml(u) ==
    \A i \in 1..Len(site.resp[u]) :
        /\ site.resp[u][i].err = ""
        /\ site.resp[u][i].code >= 200
        /\ site.resp[u][i].code < 300
        /\ site.resp[u][i].html

\* the same-domain URLs at link distance at most n from the root, counted
\* over the pages that answer 2xx with HTML
RECURSIVE Level(_)
Level(n) ==
    IF n = 0 THEN {Root}
    ELSE Level(n - 1) \cup
         { v \in Urls : /\ IsSameDomain(v)
                        /\ \E u \in Level(n - 1) :
                              /\ PageIsOkHtml(u)
                              /\ \E i \in 1..Len(ExtractLinks(site.links[u], u)) :
                                    ExtractLinks(site.links[u], u)[i] = v }

\* the link distance of a URL of Level(Cardinality(Urls))
Dist(u) == CHOOSE n \in 0..Cardinality(Urls) :
              u \in Level(n) /\ \A m \in 0..n : u \in Level(m) => m = n

\* C6: without cancellation, at the end every same-domain URL at a link
\* distance below the configured depth has a PageRecord.
C6_ReachableCrawled ==
    (rpc = "returned" /\ ~cancelled) =>
        \A n \in 0..(opts.Depth - 1) : \A u \in Level(n) :
            \E i \in 1..Len(encoded) : encoded[i].URL = u

\* every URL answers every request in the same way
FixedSite == \A u \in Urls : Len(site.resp[u]) = 1

\* the URL, depth and status of each page of a report, in order
Summary(report) ==
    [i \in 1..Len(report) |->
        [URL |-> report[i].URL, Depth |-> report[i].Depth, Status |-> report[i].Status]]

\* the report of the crawl that runs one worker at a time: the URLs at a
\* distance below the depth (the root always), each once, at its distance,
\* in ascending URL order
RECURSIVE Ascending(_)
Ascending(S) ==
    IF S = {} THEN <<>>
    ELSE LET m == CHOOSE x \in S : \A y \in S : ~UrlLess(y, x)
         IN <<m>> \o Ascending(S \ {m})

SequentialReport ==
    LET reach == Level(IF opts.Depth > 0 THEN opts.Depth - 1 ELSE 0)
        order == Ascending(reach)
    IN [i \in 1..Len(order) |->
          [URL |-> order[i], Depth |-> Dist(order[i]),
           Status |-> SetPageStatus(
                        [NewPage(order[i], 0) EXCEPT
                           !.HTTPStatus = PerformRequest(site.resp[order[i]][1]).StatusCode,
                           !.Error = PerformRequest(site.resp[order[i]][1]).Error]).Status]]

\* with one worker at a time the crawl of a fixed site yields SequentialReport
SequentialCrawlYieldsSequentialReport ==
    (rpc = "returned" /\ FixedSite /\ opts.Concurrency = 1) =>
        Summary(encoded) = SequentialReport

\* C7: for a fixed site and fixed options every schedule of the workers
\* yields the same sequence of pages (URL, depth, status), the one the
\* one-worker-at-a-time schedule yields.
C7_ScheduleIndependentReport ==
    (rpc = "returned" /\ FixedSite) => Summary(encoded) = SequentialReport


\* ------------------------------------------------- SetPageStatus by itself
StatusCodes ==
    { -1, 0, 1, 100, 199, 200, 204, 299, 300, 301, 399, 400, 404, 429, 499,
      500, 503, 599, 600, 999 }

\* a page with any HTTP status, with or without an error text, whatever its
\* status field held before
StatusInit ==
    /\ \E h \in StatusCodes : \E e \in {"", "transport error"} :
       \E st \in {"", "ok"} :
          pages = << [NewPage(Root, 0) EXCEPT !.HTTPStatus = h, !.Error = e,
                                              !.Status = st] >>
    /\ site = Site(LinksOf(<<>>, <<>>, <<>>, <<>>), NoAssets, AllOk)
    /\ opts = Options(0, 1, 0)
    /\ cancelled = FALSE
    /\ queue = <<>>
    /\ visited = {}
    /\ wg = 0
    /\ sem = 0
    /\ rpc = "status"
    /\ item = NoItem
    /\ jobs = <<>>
    /\ encoded = <<>>
    /\ cache = [a \in {} |-> NoAsset]
    /\ gets = [u \in Urls |-> 0]
    /\ heads = [u \in Urls |-> 0]
    /\ agets = [a \in AssetUrls |-> 0]
    /\ lim = NoLimiter
    /\ builder = NoReport

\* SetPageStatus applied to the page it produced last
StatusApply ==
    /\ rpc = "status"
    /\ Len(pages) < 3
    /\ pages' = Append(pages, SetPageStatus(pages[Len(pages)]))
    /\ UNCHANGED <<lim, builder, opts, site, cancelled, queue, visited, wg, sem, rpc, item,
                   jobs, encoded, cache, gets, heads, agets>>

StatusSpec == StatusInit /\ [][StatusApply]_vars

\* C8: SetPageStatus gives error for 0 (with the default message when no
\* error is set), ok for 200-299, redirect for 300-399, client_error for
\* 400-499, server_error from 500 on; it changes nothing else, and applying
\* it again changes nothing.
C8_StatusTable ==
    rpc = "status" =>
        \A i \in 2..Len(pages) :
            LET h == pages[1].HTTPStatus IN
            /\ h = 0 => /\ pages[i].Status = "error"
                        /\ pages[i].Error = IF pages[1].Error = ""
                                            THEN "no response received"
                                            ELSE pages[1].Error
            /\ (h >= 200 /\ h <= 299) => pages[i].Status = "ok"
            /\ (h >= 300 /\ h <= 399) => pages[i].Status = "redirect"
            /\ (h >= 400 /\ h <= 499) => pages[i].Status = "client_error"
            /\ h >= 500 => pages[i].Status = "server_error"
            /\ h # 0 => pages[i].Error = pages[1].Error
            /\ [pages[i] EXCEPT !.Status = "", !.Error = ""]
                  = [pages[1] EXCEPT !.Status = "", !.Error = ""]
            /\ i = 3 => pages[3] = pages[2]

C8_Witness ==
    /\ rpc = "status"
    /\ Len(pages) = 3
    /\ pages[1].HTTPStatus = 0
    /\ pages[1].Error = ""
    /\ pages[3].Status = "error"
    /\ pages[3].Error = "no response received"

\* C9: with a transport that fails n times and then succeeds, retries = n-1
\* ends in status error after exactly n requests, and retries = n ends in
\* status ok after exactly n+1 requests.
C9_RetryCeiling ==
    \A n \in 1..MaxFail :
        ( /\ rpc = "returned"
          /\ site.resp[Root] = Fails(n) \o <<Resp(200, FALSE)>>
          /\ site.links[Root] = <<>> ) =>
            /\ Len(encoded) = 1
            /\ opts.Retries = n - 1 =>
                  (encoded[1].Status = "error" /\ gets[Root] = n)
            /\ opts.Retries = n =>
                  (encoded[1].Status = "ok" /\ gets[Root] = n + 1)

C9_Witness ==
    /\ rpc = "returned"
    /\ site.resp[Root] = Fails(2) \o <<Resp(200, FALSE)>>
    /\ opts.Retries = 2
    /\ gets[Root] = 3
    /\ encoded[1].Status = "ok"
    /\ encoded[1].HTTPStatus = 200

\* C10: after a request of Fetch, on the first attempt and on every later
\* one, another attempt follows if and only if attempts remain and the
\* request ended in a transport error, a 429 or a status in [500,600); any
\* other outcome ends the fetch at once.
C10_RetryPredicate ==
    [][ \A j \in JobIds :
          ( /\ jobs[j].pc = "request"
            /\ j \in 1..Len(jobs')
            /\ jobs'[j] # jobs[j] ) =>
              LET o == Answer(site.resp[jobs[j].url], gets[jobs[j].url] + 1) IN
              /\ gets'[jobs[j].url] = gets[jobs[j].url] + 1
              /\ jobs'[j].pc \in {"fetch", "fetched"}
              /\ jobs'[j].pc = "fetch" => jobs'[j].attempt = jobs[j].attempt + 1
              /\ jobs'[j].pc = "fetched" => jobs'[j].attempt = jobs[j].attempt
              /\ jobs'[j].pc = "fetch"
                   <=> ( /\ jobs[j].attempt < opts.Retries
                         /\ \/ o.err # ""
                            \/ o.code = 429
                            \/ (o.code >= 500 /\ o.code < 600) )
      ]_vars

\* a fetch whose first request was retried has ended on its second request
\* with a 404, although an attempt was left
C10_Witness ==
    \E j \in JobIds :
        /\ jobs[j].pc = "fetched"
        /\ jobs[j].attempt = 1
        /\ jobs[j].attempt < opts.Retries
        /\ gets[jobs[j].url] = 2
        /\ jobs[j].result.StatusCode = 404
        /\ jobs[j].result.Error = ""

\* every answer of the root is a status in [500,600)
RootAlways5xx ==
    \A i \in 1..Len(site.resp[Root]) :
        /\ site.resp[Root][i].err = ""
        /\ site.resp[Root][i].code >= 500
        /\ site.resp[Root][i].code < 600

\* C11: a fetch makes at most retries+1 requests and returns the outcome of
\* its last request unchanged; a root that answers 5xx on every attempt is
\* reported after retries+1 requests with that http_status, status
\* server_error and no error text.
C11_ExhaustedReturnsLast ==
    /\ \A j \in JobIds : jobs[j].attempt <= opts.Retries \/ jobs[j].attempt = 0
    /\ opts.Depth = 0 => gets[Root] <= opts.Retries + 1
    /\ \A j \in JobIds :
          (jobs[j].pc = "fetched" /\ opts.Depth = 0) =>
              /\ gets[jobs[j].url] >= 1
              /\ jobs[j].result =
                    PerformRequest(Answer(site.resp[jobs[j].url], gets[jobs[j].url]))
    /\ (rpc = "returned" /\ opts.Depth = 0 /\ RootAlways5xx) =>
          /\ gets[Root] = opts.Retries + 1
          /\ Len(encoded) = 1
          /\ encoded[1].HTTPStatus = Answer(site.resp[Root], gets[Root]).code
          /\ encoded[1].Status = "server_error"
          /\ encoded[1].Error = ""

\* three requests answered 500, 500, 500 with retries = 2
C11_Witness ==
    /\ rpc = "returned"
    /\ opts.Retries = 2
    /\ site.resp[Root] = <<Resp(500, FALSE)>>
    /\ gets[Root] = 3
    /\ Len(encoded) = 1
    /\ encoded[1].HTTPStatus = 500
    /\ encoded[1].Status = "server_error"

\* C12: over the whole crawl no asset URL is requested more than once,
\* whichever pages and probes refer to it.
C12_AssetFetchedOnce ==
    \A a \in AssetUrls : agets[a] <= 1

\* an href that is to be dropped: empty, a fragment, javascript:, mailto:,
\* tel:, or a scheme other than http and https
Ignored(h) ==
    \/ h = <<>>
    \/ h[1] = "#"
    \/ /\ Len(h) >= 2
       /\ h[2] = ":"
       /\ h[1] \in SchemeWords
       /\ ToLower(h[1]) \notin {"http", "https"}

\* the number of hrefs of a list that are not to be dropped
RECURSIVE KeptCount(_)
KeptCount(hrefs) ==
    IF hrefs = <<>> THEN 0
    ELSE (IF Ignored(Head(hrefs)) THEN 0 ELSE 1) + KeptCount(Tail(hrefs))

\* C13: the links of a page are its hrefs without the empty ones, the
\* fragments, javascript:, mailto:, tel: and the schemes other than http(s);
\* only http(s) URLs of the site are probed, reported broken or enqueued.
C13_IgnoredLinksDropped ==
    /\ \A j \in JobIds :
          /\ Len(jobs[j].links) \in {0, KeptCount(site.links[jobs[j].url])}
          /\ \A i \in 1..Len(jobs[j].links) : jobs[j].links[i] \in Urls
          /\ \A i \in 1..Len(jobs[j].toAdd) : jobs[j].toAdd[i].URL \in Urls
          /\ jobs[j].pc \in {"cl_add", "cl_spawn", "cl_collect"} =>
                \A i \in 1..Len(jobs[j].fan.chan) : jobs[j].fan.chan[i].URL \in Urls
    /\ \A i \in 1..Len(queue) : queue[i].URL \in Urls
    /\ \A i \in 1..Len(pages) :
          /\ Len(pages[i].BrokenLinks.items) <= KeptCount(site.links[pages[i].URL])
          /\ \A k \in 1..Len(pages[i].BrokenLinks.items) :
                pages[i].BrokenLinks.items[k].URL \in Urls
    /\ (rpc = "returned" /\ site = IgnoredLinksSite) =>
          /\ heads[PageA] = 1
          /\ heads[PageB] = 1
          /\ \A u \in Urls \ {PageA, PageB} : heads[u] = 0
          /\ \A i \in 1..Len(encoded) : encoded[i].URL \in {Root, PageA, PageB}

\* the root with seven dropped anchors and two kept ones was crawled: one
\* broken link, and both kept targets were fetched
C13_Witness ==
    /\ rpc = "returned"
    /\ site = IgnoredLinksSite
    /\ Len(encoded) = 3
    /\ encoded[2].URL = Root
    /\ Len(encoded[2].BrokenLinks.items) = 1
    /\ encoded[2].BrokenLinks.items[1].URL = PageB
    /\ gets[PageA] = 1

\* every request for the root ends in a transport error
RootAlwaysFails ==
    \A i \in 1..Len(site.resp[Root]) : site.resp[Root][i].err # ""

\* C14: when every attempt to fetch the root fails with a transport error,
\* no link is probed and no asset is requested, and the report holds one
\* PageRecord: the root with status error, an error text, http_status 0 and
\* no broken links and no assets.
C14_RootTransportError ==
    RootAlwaysFails =>
        /\ \A u \in Urls : heads[u] = 0
        /\ \A a \in AssetUrls : agets[a] = 0
        /\ \A u \in Urls \ {Root} : gets[u] = 0
        /\ Len(pages) <= 1
        /\ rpc = "returned" =>
              /\ gets[Root] = opts.Retries + 1
              /\ Len(encoded) = 1
              /\ encoded[1].URL = Root
              /\ encoded[1].Status = "error"
              /\ encoded[1].Error # ""
              /\ encoded[1].HTTPStatus = 0
              /\ encoded[1].BrokenLinks.items = <<>>
              /\ encoded[1].Assets.items = <<>>

\* the root that has a link and two assets failed twice and was reported
C14_Witness ==
    /\ rpc = "returned"
    /\ site = RootDownSite
    /\ opts.Concurrency = 2
    /\ gets[Root] = 2
    /\ Len(encoded) = 1
    /\ encoded[1].Status = "error"
    /\ encoded[1].Error = "transport error"

\* C15: for a root URL that is malformed or has no host Analyze ends with an
\* error: no report is built, nothing is queued, no worker is started, no
\* request is issued and no rate limiter is created.
C15_InvalidRootRefused ==
    opts.URL \in BadRootInputs =>
        /\ rpc \in {"analyze", "failed"}
        /\ builder = NoReport
        /\ encoded = <<>>
        /\ pages = <<>>
        /\ queue = <<>>
        /\ jobs = <<>>
        /\ wg = 0
        /\ sem = 0
        /\ lim = NoLimiter
        /\ \A u \in Urls : gets[u] = 0 /\ heads[u] = 0
        /\ \A a \in AssetUrls : agets[a] = 0

\* Analyze has refused "https:///b" although a delay was configured
C15_Witness ==
    /\ rpc = "failed"
    /\ opts.URL = <<"https", ":", "//", "/b">>
    /\ opts.Delay = 1
    /\ lim = NoLimiter

\* a root URL given without a scheme is accepted as https and crawled
BareRootAccepted ==
    (opts.URL = BareRootHref /\ rpc # "analyze") =>
        (rpc # "failed" /\ builder.RootURL = Root)

\* the broken links of a report page, as the set of their URLs
BrokenUrls(page) ==
    { page.BrokenLinks.items[k].URL : k \in 1..Len(page.BrokenLinks.items) }

\* C16: a failed page fetch, link probe or asset fetch does not stop the
\* crawl. When Analyze returns the frontier is empty, every entry that was
\* dequeued has its PageRecord, a page that answers 200 with HTML is
\* reported ok without an error whatever failed around it, and the failure of
\* a link or an asset is found only in the broken link or asset record of the
\* pages that refer to it.
C16_FailuresAreLocal ==
    (rpc = "returned" /\ ~cancelled) =>
        /\ IsEmpty(queue)
        /\ \A j \in JobIds :
              /\ jobs[j].pc = "exit"
              /\ \E i \in 1..Len(encoded) : encoded[i].URL = jobs[j].url
        /\ \A i \in 1..Len(encoded) :
              /\ PageIsOkHtml(encoded[i].URL) =>
                    /\ encoded[i].Status = "ok"
                    /\ encoded[i].HTTPStatus = 200
                    /\ encoded[i].Error = ""
                    /\ ~encoded[i].BrokenLinks.isnil
                    /\ ~encoded[i].Assets.isnil
              /\ BrokenUrls(encoded[i]) \subseteq
                    { u \in Urls :
                        /\ ~PageIsOkHtml(u)
                        /\ \E k \in 1..Len(ExtractLinks(site.links[encoded[i].URL],
                                                         encoded[i].URL)) :
                              ExtractLinks(site.links[encoded[i].URL],
                                           encoded[i].URL)[k] = u }
        /\ site = FailingSite =>
              /\ { encoded[i].URL : i \in 1..Len(encoded) } = {Root, PageA, PageB, PageC}
              /\ \A i \in 1..Len(encoded) :
                    /\ encoded[i].URL = PageA =>
                          (encoded[i].Status = "error" /\ encoded[i].Error # "")
                    /\ encoded[i].URL = PageC =>
                          (encoded[i].Status = "server_error" /\ encoded[i].HTTPStatus = 500)
                    /\ encoded[i].URL = Root =>
                          /\ BrokenUrls(encoded[i]) = {PageA}
                          /\ Len(encoded[i].Assets.items) = 1
                          /\ encoded[i].Assets.items[1].Error # ""
                    /\ encoded[i].URL = PageB => BrokenUrls(encoded[i]) = {PageC}

\* the crawl of the failing site has ended with all four pages reported
C16_Witness ==
    /\ rpc = "returned"
    /\ site = FailingSite
    /\ opts.Concurrency = 2
    /\ Len(encoded) = 4
    /\ encoded[1].Status = "error"
    /\ encoded[2].Status = "ok"
    /\ encoded[2].Assets.items[1].Error = "transport error"
    /\ encoded[3].Status = "ok"
    /\ encoded[4].Status = "server_error"

\* C20: every PageRecord with a page-level error has null broken_links and
\* assets, and every PageRecord whose status is not error has non-null
\* broken_links and assets, also for a page without links or assets, where
\* CheckLinks got an empty list.
C20_NullOnlyOnError ==
    /\ \A i \in 1..Len(pages) :
          /\ pages[i].Error # "" =>
                (pages[i].BrokenLinks = NilSlice /\ pages[i].Assets = NilSlice)
          /\ pages[i].Status # "error" =>
                (~pages[i].BrokenLinks.isnil /\ ~pages[i].Assets.isnil)
    /\ \A i \in 1..Len(encoded) :
          /\ encoded[i].Error # "" =>
                (encoded[i].BrokenLinks = NilSlice /\ encoded[i].Assets = NilSlice)
          /\ encoded[i].Status # "error" =>
                (~encoded[i].BrokenLinks.isnil /\ ~encoded[i].Assets.isnil)

\* the report holds a failed page with null lists and an HTML page without
\* links and assets with empty lists
C20_Witness ==
    /\ rpc = "returned"
    /\ \E i \in 1..Len(encoded) :
          /\ encoded[i].Error # ""
          /\ encoded[i].BrokenLinks.isnil
    /\ \E i \in 1..Len(encoded) :
          /\ encoded[i].Status = "ok"
          /\ PageIsOkHtml(encoded[i].URL)
          /\ site.links[encoded[i].URL] = <<>>
          /\ site.assets[encoded[i].URL] = <<>>
          /\ encoded[i].BrokenLinks = EmptySlice
          /\ encoded[i].Assets = EmptySlice

\* C18: once the context is cancelled no page GET, link HEAD or asset GET is
\* issued and no caller enters a wait of the rate limiter.
C18_NoNewWorkAfterCancel ==
    [][ cancelled =>
          /\ gets' = gets
          /\ heads' = heads
          /\ agets' = agets
          /\ \A j \in JobIds :
                /\ jobs'[j].pc = "fwait" => jobs[j].pc = "fwait"
                /\ \A k \in 1..Len(jobs[j].fan.probes) :
                      (k <= Len(jobs'[j].fan.probes)
                         /\ jobs'[j].fan.probes[k].pc \in {"hwait", "await"})
                      => jobs[j].fan.probes[k].pc = jobs'[j].fan.probes[k].pc
      ]_vars

\* the callers whose Wait has returned true and whose request is still to
\* be made: page fetches, link probes and asset probes
WaitReturned ==
    {<<j, 0>> : j \in {i \in JobIds : jobs[i].pc = "do"}}
    \cup UNION { {<<j, k>> : k \in {n \in 1..Len(jobs[j].fan.probes) :
                                      jobs[j].fan.probes[n].pc \in {"hdo", "ado"}}} :
                 j \in JobIds }

\* C17: with a limiter of interval d > 0, Wait returns success only by
\* taking a buffered tick out of the channel, and never when the context was
\* cancelled before the tick was taken.
C17_WaitContract ==
    [][ (lim.ticker /\ \E a \in WaitReturned' : a \notin WaitReturned)
          => /\ ~cancelled
             /\ lim.ticks = 1
             /\ lim'.ticks = 0
      ]_vars

\* C19: when Analyze is called with a context that is cancelled already and
\* a valid URL, it never fails; nothing is ever taken from the queue, no URL
\* is marked visited, no worker exists and no request is made; and the report
\* it returns carries the root URL and no page.
C19_CancelledAtCall ==
    cancelled =>
      [](/\ rpc # "failed"
         /\ rpc # "analyze" => queue = NewURLQueue(Root)
         /\ item = NoItem
         /\ visited = {}
         /\ jobs = <<>>
         /\ \A u \in DOMAIN gets : gets[u] = 0
         /\ \A u \in DOMAIN heads : heads[u] = 0
         /\ \A u \in DOMAIN agets : agets[u] = 0
         /\ rpc = "returned" => (builder.RootURL = Root /\ encoded = <<>>))

\* Analyze has returned the report of a crawl that was paced by a limiter and
\* cancelled before the dispatch loop took anything from the queue
C19_Witness ==
    /\ rpc = "returned"
    /\ cancelled
    /\ opts.Delay > 0
    /\ queue = NewURLQueue(Root)
    /\ visited = {}
    /\ jobs = <<>>
    /\ builder.RootURL = Root

\* the pages of s are in ascending URL order: no page comes before a page
\* with a smaller URL
AscendingByURL(s) ==
    \A i \in 1..Len(s) : \A k \in 1..Len(s) :
        i < k => ~UrlLess(s[k].URL, s[i].URL)

\* s and t hold the same pages, each as often
SamePages(s, t) ==
    /\ Len(s) = Len(t)
    /\ \A i \in 1..Len(s) :
          Cardinality({k \in 1..Len(s) : s[k] = s[i]})
            = Cardinality({k \in 1..Len(t) : t[k] = s[i]})

\* C21: Encode writes the appended pages out in ascending URL order, whatever
\* the order in which the workers appended them, and a second Encode of the
\* report it has sorted writes them in the same order.
C21_EncodeSortsByURL ==
    [][ (rpc = "done" /\ rpc' = "returned")
          => /\ AscendingByURL(encoded')
             /\ SamePages(encoded', pages)
             /\ SortByURL(pages') = encoded'
      ]_vars

\* a crawl with one worker has returned three pages: the root was appended
\* first, and is written out after PageA
C21_Witness ==
    /\ rpc = "returned"
    /\ opts.Concurrency = 1
    /\ Len(encoded) >= 3
    /\ encoded[1].URL = PageA
    /\ encoded[2].URL = Root

\* a probe outcome without error and with a status code in [200, 400)
Healthy(result) ==
    result.Error = "" /\ result.StatusCode \in 200..399

\* a broken link record that carries the error text or the status code, and
\* not both
OneOfErrorAndCode(rec) ==
    \/ (rec.Error # "" /\ rec.StatusCode = 0)
    \/ (rec.Error = "" /\ rec.StatusCode # 0)

\* C22: CheckLinks returns a record for a link exactly when the link is not
\* healthy. The goroutine of a link sends one record for it when the outcome
\* returned by headRequest is not healthy and none when it is; the record
\* names the link and carries the outcome's error text or its status code,
\* never both; the collector moves the records unchanged; and CheckLinks
\* returns, after every goroutine has ended, exactly the records collected.
C22_RecordIffUnhealthy ==
    [][ \A j \in JobIds :
          jobs[j].pc \in {"cl_add", "cl_spawn", "cl_collect"} =>
            /\ \A k \in 1..Len(jobs[j].fan.probes) :
                  (jobs[j].fan.probes[k].pc = "send"
                     /\ jobs'[j].fan.probes[k].pc = "release") =>
                    LET res == jobs[j].fan.probes[k].res
                        old == jobs[j].fan.chan
                        new == jobs'[j].fan.chan
                    IN  IF Healthy(res)
                        THEN new = old
                        ELSE /\ Len(new) = Len(old) + 1
                             /\ SubSeq(new, 1, Len(old)) = old
                             /\ new[Len(new)].URL = jobs[j].links[k]
                             /\ OneOfErrorAndCode(new[Len(new)])
                             /\ new[Len(new)].Error = res.Error
                             /\ res.Error = "" =>
                                   new[Len(new)].StatusCode = res.StatusCode
            /\ (\A k \in 1..Len(jobs[j].fan.probes) :
                   ~(jobs[j].fan.probes[k].pc = "send"
                       /\ jobs'[j].fan.probes[k].pc = "release"))
                 => \/ jobs'[j].pc = "checkassets"
                    \/ jobs'[j].fan.out \o jobs'[j].fan.chan
                         = jobs[j].fan.out \o jobs[j].fan.chan
            /\ jobs'[j].pc = "checkassets" =>
                 /\ jobs[j].fan.chan = <<>>
                 /\ \A k \in 1..Len(jobs[j].fan.probes) :
                       jobs[j].fan.probes[k].pc = "exit"
                 /\ Len(jobs[j].fan.probes) = Len(jobs[j].links)
                 /\ jobs'[j].page.BrokenLinks = Slice(jobs[j].fan.out)
      ]_vars

\* the report of a crawl whose root has two links that are checked: PageA
\* answers 200 and has no record, PageB answers 404 and has the one record,
\* with the code only
C22_Witness ==
    /\ rpc = "returned"
    /\ site = IgnoredLinksSite
    /\ \E i \in 1..Len(encoded) :
          /\ encoded[i].URL = Root
          /\ Len(encoded[i].BrokenLinks.items) = 1
          /\ encoded[i].BrokenLinks.items[1].URL = PageB
          /\ encoded[i].BrokenLinks.items[1].StatusCode = 404
          /\ encoded[i].BrokenLinks.items[1].Error = ""

\* C23: a check of an asset that fetches it makes one request. An answer with
\* a status code of 400 or more gives a record with that code and an error
\* text; a request that fails in transport gives a record with status code 0
\* and an error text. A check that has its record makes no further request:
\* on BrokenAssetsSite, where a second request would be answered 200, each
\* asset has been requested once when Analyze returns.
C23_FailedAssetRecord ==
    [][ /\ \A j \in JobIds :
             jobs[j].pc \in {"ca_add", "ca_spawn", "ca_collect"} =>
               \A k \in 1..Min(Len(jobs[j].fan.probes), Len(jobs'[j].fan.probes)) :
                 LET u == site.assets[jobs[j].url][k].URL
                     o == Answer(site.aresp[u], agets[u] + 1)
                     before == jobs[j].fan.probes[k].pc
                     after == jobs'[j].fan.probes[k].pc
                     rec == jobs'[j].fan.probes[k].asset
                 IN  /\ (before \in {"fetch", "ado"} /\ after = "store"
                           /\ agets' # agets) =>
                          /\ agets' = [agets EXCEPT ![u] = @ + 1]
                          /\ rec.URL = u
                          /\ o.err # "" => (rec.StatusCode = 0 /\ rec.Error # "")
                          /\ (o.err = "" /\ o.code >= 400) =>
                                (rec.StatusCode = o.code /\ rec.Error # "")
                     /\ before \in {"store", "send", "release", "done", "exit"} =>
                          after \notin {"begin", "fetch", "await", "ado"}
        /\ (rpc' = "returned" /\ site = BrokenAssetsSite) =>
             /\ agets'[Img] = 1
             /\ agets'[Js] = 1
      ]_vars

\* the report of BrokenAssetsSite: the image has its 404 and an error, the
\* script status code 0 and the transport error, after one request each
C23_Witness ==
    /\ rpc = "returned"
    /\ site = BrokenAssetsSite
    /\ agets[Img] = 1
    /\ agets[Js] = 1
    /\ Len(encoded) = 1
    /\ Len(encoded[1].Assets.items) = 2
    /\ \E a \in 1..2 : /\ encoded[1].Assets.items[a].URL = Img
                       /\ encoded[1].Assets.items[a].StatusCode = 404
                       /\ encoded[1].Assets.items[a].Error = "HTTP 404"
    /\ \E a \in 1..2 : /\ encoded[1].Assets.items[a].URL = Js
                       /\ encoded[1].Assets.items[a].StatusCode = 0
                       /\ encoded[1].Assets.items[a].Error = "transport error"

\* C24: an entry of the asset cache, once written, keeps its value, and a
\* check of a URL that ends while the cache holds an entry for it returns
\* that entry.
C24_CacheEntryImmutable ==
    [][ /\ \A a \in DOMAIN cache :
             a \in DOMAIN cache' /\ cache'[a] = cache[a]
        /\ \A j \in JobIds :
             jobs[j].pc \in {"ca_add", "ca_spawn", "ca_collect"} =>
               \A k \in 1..Min(Len(jobs[j].fan.probes), Len(jobs'[j].fan.probes)) :
                 (jobs[j].fan.probes[k].pc = "send"
                    /\ jobs'[j].fan.probes[k].pc = "release"
                    /\ jobs[j].fan.probes[k].asset.URL \in DOMAIN cache)
                 => jobs[j].fan.probes[k].asset
                      = cache[jobs[j].fan.probes[k].asset.URL]
      ]_vars

\* the sum of the counters f[x] for x in S
RECURSIVE SumOf(_, _)
SumOf(f, S) ==
    IF S = {} THEN 0
    ELSE LET x == CHOOSE y \in S : TRUE IN f[x] + SumOf(f, S \ {x})

\* the requests made so far; with a limiter each one followed a Wait that
\* returned true
Requests == SumOf(gets, Urls) + SumOf(heads, Urls) + SumOf(agets, AssetUrls)

\* C25: with an interval d > 0 the limiter holds at most one unclaimed tick,
\* a tick that arrives while one is pending being dropped; and as long as the
\* context is not cancelled the successful Waits, those whose request has
\* been made and those whose request is still to come, together with the
\* pending tick are no more than the ticks emitted.
C25_NoBurst ==
    lim.ticker =>
        /\ lim.ticks <= 1
        /\ ~cancelled =>
             Requests + Cardinality(WaitReturned) + lim.ticks <= lim.emitted

\* two requests were made behind the limiter, a third Wait has returned and
\* its request is still to come, one tick is pending and a tick that arrived
\* in between was dropped
C25_Witness ==
    /\ lim.ticker
    /\ ~cancelled
    /\ Requests >= 2
    /\ WaitReturned # {}
    /\ lim.ticks = 1
    /\ lim.emitted > Requests + Cardinality(WaitReturned) + 1

\* C26: every step that starts an HTTP request, a page GET, a link HEAD or an
\* asset GET, starts one request, leaves the limiter made by Analyze as it
\* is, and, when the limiter has a channel, is the step of a caller whose own
\* Wait has returned true and who has made no request since. A Wait returns
\* true only to a caller that was waiting, one caller at a time, and only by
\* taking the buffered tick out of the channel or on a closed channel. So one
\* successful Wait never serves two requests, and the requests started are
\* never more than the successful Waits.
C26_RequestBehindWait ==
    [][ /\ (gets' # gets \/ heads' # heads \/ agets' # agets) =>
             /\ SumOf(gets', Urls) + SumOf(heads', Urls) + SumOf(agets', AssetUrls)
                  = Requests + 1
             /\ lim' = lim
             /\ lim = NewRateLimiter(opts.Delay) \/ lim.ticker
             /\ lim.ticker =>
                  \E a \in WaitReturned :
                    /\ WaitReturned' = WaitReturned \ {a}
                    /\ a[2] = 0 => (gets' # gets /\ jobs'[a[1]].pc # "do")
                    /\ a[2] > 0 =>
                         /\ jobs[a[1]].fan.probes[a[2]].pc = "hdo" => heads' # heads
                         /\ jobs[a[1]].fan.probes[a[2]].pc = "ado" => agets' # agets
        /\ \A a \in WaitReturned' \ WaitReturned :
             /\ WaitReturned' = WaitReturned \cup {a}
             /\ IF a[2] = 0
                THEN jobs[a[1]].pc = "fwait"
                ELSE jobs[a[1]].fan.probes[a[2]].pc \in {"hwait", "await"}
             /\ lim.ticker
             /\ \/ lim.ticks > 0 /\ lim' = [lim EXCEPT !.ticks = @ - 1]
                \/ lim.ticks = 0 /\ lim.closed /\ lim' = lim
      ]_vars

\* a paced crawl that has not been cancelled has made a page GET, a link HEAD
\* and an asset GET, each behind its Wait, and one more Wait has returned
\* whose request is still to come
C26_Witness ==
    /\ lim.ticker
    /\ ~cancelled
    /\ SumOf(gets, Urls) >= 1
    /\ SumOf(heads, Urls) >= 1
    /\ SumOf(agets, AssetUrls) >= 1
    /\ WaitReturned # {}
    /\ lim.emitted >= Requests + Cardinality(WaitReturned)

\* C27: Fetch that is called after the cancellation makes no request and
\* returns the context error. A Fetch that the cancellation finds in the
\* pause between two attempts or in the Wait of the limiter makes no further
\* request and returns the context error, not the outcome of its last
\* attempt.
C27_FetchCancelled ==
    [][ \A j \in JobIds :
          (cancelled /\ jobs[j].pc \in {"fetch", "backoff", "fwait"}
             /\ jobs'[j] # jobs[j]) =>
            /\ gets' = gets
            /\ jobs'[j].result = CtxResult
            /\ jobs'[j].pc \in {"fetch", "fetched"}
            /\ jobs[j].pc \in {"fetch", "backoff"} => jobs'[j].pc = "fetched"
      ]_vars

\* C28: the check of one link makes at most LinkMaxRetries + 1 = 3 HEAD
\* requests, whatever Options.Retries says, and a HEAD request after the first
\* follows an attempt that ended with a transport error, a 429 or a 5xx. On
\* LinkRetrySite, whose link always answers 500, the link has had exactly 3
\* HEAD requests when Analyze returns, for every value of Retries.
C28_HeadCeiling ==
    [][ /\ \A j \in JobIds :
             jobs[j].pc \in {"cl_add", "cl_spawn", "cl_collect"} =>
               \A k \in 1..Min(Len(jobs[j].fan.probes), Len(jobs'[j].fan.probes)) :
                 LET pr == jobs[j].fan.probes[k] IN
                 (heads' # heads /\ jobs'[j].fan.probes[k] # pr) =>
                   /\ pr.attempt + 1 <= 3
                   /\ pr.attempt > 0 =>
                        \/ pr.res.Error # ""
                        \/ pr.res.StatusCode = 429
                        \/ pr.res.StatusCode \in 500..599
        /\ (rpc' = "returned" /\ site = LinkRetrySite) => heads'[PageA] = 3
      ]_vars

\* the link that always answers 500 has had its 3 HEAD requests in a crawl
\* whose page fetches are not retried at all
C28_Witness ==
    /\ rpc = "returned"
    /\ site = LinkRetrySite
    /\ opts.Retries = 0
    /\ heads[PageA] = 3
    /\ \E i \in 1..Len(encoded) :
          /\ encoded[i].URL = Root
          /\ Len(encoded[i].BrokenLinks.items) = 1
          /\ encoded[i].BrokenLinks.items[1].StatusCode = 500

\* the page workers that hold a slot and have not yet returned from
\* processSingleURL
Executing == {j \in JobIds : jobs[j].pc \notin {"release", "wgdone", "exit"}}

\* the worker limit of a crawl: the configured value, 4 when that is <= 0
WorkerLimit == IF opts.Concurrency <= 0 THEN 4 ELSE opts.Concurrency

\* C29: at every moment at most WorkerLimit page workers execute
\* processSingleURL, and the dispatcher starts a further worker only from its
\* wait for a slot and only while fewer than WorkerLimit are executing
C29_WorkerLimit ==
    [][ /\ Cardinality(Executing') <= WorkerLimit
        /\ Len(jobs') > Len(jobs) =>
             /\ rpc = "acquire"
             /\ Cardinality(Executing) < WorkerLimit
             /\ sem < WorkerLimit
      ]_vars

\* the configured limit is <= 0, four workers execute and the dispatcher
\* waits for a slot with a fifth entry in hand
C29_Witness ==
    /\ opts.Concurrency <= 0
    /\ Cardinality(Executing) = 4
    /\ rpc = "acquire"
    /\ item # NoItem
    /\ sem = 4

\* the URLs whose host is the host of the root
RootHostUrls == {Root, PageA, PageB, PageC}

\* C30: entries are added to the queue only by a page whose status is ok and
\* whose depth + 1 is below the maximum depth; each added entry is one of the
\* page's links, has the root's host and the page's depth plus one; a step of
\* a page whose status is redirect, client_error, server_error or error adds
\* nothing
C30_EnqueueRule ==
    [][ /\ (rpc # "analyze" /\ Len(queue') > Len(queue)) =>
             \E j \in JobIds :
                /\ jobs[j].pc = "enqueue"
                /\ jobs'[j].pc = "addpage"
                /\ jobs[j].page.Status = "ok"
                /\ jobs[j].depth + 1 < opts.Depth
                /\ SubSeq(queue', 1, Len(queue)) = queue
                /\ \A k \in (Len(queue) + 1)..Len(queue') :
                      /\ queue'[k].URL \in RootHostUrls
                      /\ queue'[k].Depth = jobs[j].depth + 1
                      /\ \E i \in 1..Len(jobs[j].links) :
                            jobs[j].links[i] = queue'[k].URL
        /\ \A j \in JobIds :
              (jobs[j].page.Status \in {"redirect", "client_error", "server_error",
                                        "error"}
                 /\ jobs'[j] # jobs[j]) =>
                (queue' = queue /\ jobs'[j].toAdd = <<>>)
      ]_vars

\* a page with a link to another host and a link to its own host has pushed
\* its entries: the queue ends with one entry, for the link to its own host
C30_Witness ==
    \E j \in JobIds :
       /\ jobs[j].pc = "addpage"
       /\ \E i \in 1..Len(jobs[j].links) : jobs[j].links[i] = Ext
       /\ Len(jobs[j].toAdd) = 1
       /\ Len(queue) > 0
       /\ queue[Len(queue)] = Entry(PageA, jobs[j].depth + 1)
       /\ jobs[j].toAdd[1] = queue[Len(queue)]

\* the fetch ended in an error or captured no HTML/XML body
NoBody(result) ==
    \/ result.Error # ""
    \/ result.StatusCode < 200
    \/ result.StatusCode >= 300
    \/ ~result.HTMLContent

\* C31: a worker whose fetch ended in an error or without a captured body
\* goes from the return of Fetch straight to AddPage: it starts no link probe
\* and no asset request, enqueues nothing, and appends one record, with no
\* broken link and no asset in it, before it releases its slot
C31_NoBodyNoChecks ==
    [][ \A j \in JobIds :
          (NoBody(jobs[j].result) /\ jobs'[j] # jobs[j]) =>
             /\ jobs[j].pc = "fetched" =>
                   /\ jobs'[j].pc = "addpage"
                   /\ pages' = pages
             /\ jobs[j].pc = "addpage" =>
                   /\ jobs'[j].pc = "release"
                   /\ Len(pages') = Len(pages) + 1
                   /\ SubSeq(pages', 1, Len(pages)) = pages
                   /\ pages'[Len(pages')].URL = jobs[j].url
                   /\ pages'[Len(pages')].BrokenLinks.items = <<>>
                   /\ pages'[Len(pages')].Assets.items = <<>>
             /\ jobs[j].pc \in {"release", "wgdone"} => pages' = pages
             /\ jobs[j].pc \in {"fetched", "addpage", "release", "wgdone"} =>
                   /\ jobs'[j].pc \in {"addpage", "release", "wgdone", "exit"}
                   /\ jobs'[j].fan = NoFan
                   /\ jobs'[j].links = <<>>
                   /\ jobs'[j].toAdd = <<>>
                   /\ queue' = queue
                   /\ heads' = heads
                   /\ agets' = agets
      ]_vars

\* PageA answered 404 with an HTML body that links to PageC; its record is
\* appended without lists, PageC was neither probed nor enqueued
C31_Witness ==
    \E j \in JobIds :
       /\ jobs[j].url = PageA
       /\ jobs[j].pc = "release"
       /\ jobs[j].result.StatusCode = 404
       /\ Len(site.links[PageA]) > 0
       /\ heads[PageC] = 0
       /\ \E i \in 1..Len(pages) :
             /\ pages[i].URL = PageA
             /\ pages[i].Status = "client_error"
             /\ pages[i].BrokenLinks = EmptySlice
             /\ pages[i].Assets = EmptySlice
       /\ \A k \in 1..Len(queue) : queue[k].URL # PageC

\* the worker is inside CheckLinks or CheckAssets
InFanOut(job) == job.pc \in {"cl_add", "cl_spawn", "cl_collect",
                              "ca_add", "ca_spawn", "ca_collect"}

\* the number of probes CheckLinks or CheckAssets starts for the page
ProbesToStart(job) ==
    IF job.pc \in {"cl_add", "cl_spawn", "cl_collect"}
    THEN Len(job.links) ELSE Len(site.assets[job.url])

\* C32: CheckLinks and CheckAssets return only when every probe they were to
\* start has been started and has returned; outside the two calls a worker
\* has no probe, so none runs when the record is appended or the slot is
\* released, and the record is appended after both calls
C32_ChecksJoinBeforeAppend ==
    [][ \A j \in JobIds :
          /\ (InFanOut(jobs[j]) /\ ~InFanOut(jobs'[j])) =>
                /\ Len(jobs[j].fan.probes) = ProbesToStart(jobs[j])
                /\ \A k \in 1..Len(jobs[j].fan.probes) :
                      jobs[j].fan.probes[k].pc = "exit"
                /\ jobs[j].fan.wg = 0
                /\ jobs[j].fan.sem = 0
          /\ ~InFanOut(jobs'[j]) => jobs'[j].fan.probes = <<>>
          /\ (jobs[j].pc \in {"addpage", "release"} /\ jobs'[j] # jobs[j]) =>
                jobs[j].fan.probes = <<>>
          /\ (jobs[j].pc = "checklinks" /\ jobs'[j] # jobs[j]) => pages' = pages
          /\ (InFanOut(jobs[j]) /\ jobs'[j] # jobs[j]) => (pages' = pages /\ sem' = sem)
      ]_vars

\* the record of a page with a link and two assets is being appended: all
\* three probes were made and none is left
C32_Witness ==
    \E j \in JobIds :
       /\ jobs[j].pc = "addpage"
       /\ Len(jobs[j].links) >= 1
       /\ Len(site.assets[jobs[j].url]) >= 2
       /\ Len(jobs[j].page.Assets.items) >= 2
       /\ jobs[j].fan = NoFan
       /\ \A i \in 1..Len(jobs[j].links) : heads[jobs[j].links[i]] > 0

\* the workers that have called Queue.Enqueue
Pushed == {j \in JobIds : jobs[j].pc \in {"addpage", "release", "wgdone", "exit"}
                           /\ Len(jobs[j].toAdd) > 0}

RECURSIVE EnqueuedBy(_)
\* the number of entries the workers of the set put in the queue
EnqueuedBy(S) ==
    IF S = {} THEN 0
    ELSE LET j == CHOOSE x \in S : TRUE
         IN Len(jobs[j].toAdd) + EnqueuedBy(S \ {j})

\* the entries taken from the queue: one per worker started, and the one the
\* dispatcher holds
Dequeued == Len(jobs) + (IF item = NoItem THEN 0 ELSE 1)

\* C33: the queue changes only by a Dequeue, which hands the dispatcher the
\* oldest entry and removes exactly that one, by an Enqueue, which puts the
\* caller's entries at the end, together and in their order, or by the seed;
\* a Dequeue on the empty queue hands out nothing and leaves it empty; the
\* entries handed out and the entries left are together the entries put in,
\* so no entry is handed out twice
C33_QueueIsFifo ==
    [][ /\ queue' # queue =>
             \/ /\ rpc = "dequeue" /\ rpc' = "add"
                /\ queue # <<>>
                /\ item' = Head(queue)
                /\ queue' = Tail(queue)
                /\ jobs' = jobs
             \/ /\ \E j \in JobIds :
                      /\ jobs[j].pc = "enqueue"
                      /\ Len(jobs[j].toAdd) > 0
                      /\ queue' = queue \o jobs[j].toAdd
                /\ item' = item
             \/ /\ rpc = "analyze"
                /\ queue = <<>>
                /\ Len(queue') = 1
        /\ (rpc = "dequeue" /\ rpc' # rpc /\ queue = <<>>) =>
             (queue' = <<>> /\ item' = NoItem /\ rpc' = "wait" /\ jobs' = jobs)
        /\ rpc' \notin {"analyze", "failed"} =>
             Dequeued' + Len(queue') = 1 + EnqueuedBy(Pushed')
      ]_vars

\* a worker put two or more entries in the empty queue and the dispatcher
\* has taken the first of them
C33_Witness ==
    \E j \in JobIds :
       /\ Len(jobs[j].toAdd) >= 2
       /\ rpc = "add"
       /\ item = jobs[j].toAdd[1]
       /\ queue = Tail(jobs[j].toAdd)

\* C34: the visited set changes only when a worker, after its Contains test,
\* adds the URL it is about to fetch; the step leaves the queue alone, no
\* step of Enqueue or of the seed touches the set, and no URL leaves the set
C34_VisitedOnlyGrows ==
    [][ /\ visited \subseteq visited'
        /\ visited' # visited =>
             \E j \in JobIds :
                /\ jobs[j].pc = "mark"
                /\ jobs'[j].pc = "fetch"
                /\ visited' = visited \cup {jobs[j].url}
                /\ queue' = queue
        /\ queue' # queue => visited' = visited
      ]_vars

\* two URLs are claimed while a third waits in the queue, not yet in the set
C34_Witness ==
    /\ Cardinality(visited) >= 2
    /\ queue # <<>>
    /\ queue[1].URL \notin visited
    /\ \A j \in JobIds : jobs[j].url # queue[1].URL

\* the URLs of the PageRecords appended so far
RecordUrls == {pages[i].URL : i \in 1..Len(pages)}

\* C35: when Run has returned the URLs of the PageRecords are the URLs of the
\* visited set and there is one record for each of them
C35_OneRecordPerVisited ==
    rpc = "done" => (RecordUrls = visited /\ Len(pages) = Cardinality(visited))

\* the workers that still hold their semaphore slot
HoldingSlot == {j \in JobIds : jobs[j].pc \notin {"wgdone", "exit"}}

\* the workers that have not yet called WG.Done
InFlight == {j \in JobIds : jobs[j].pc # "exit"}

\* C36: the semaphore holds one token for each worker that has not yet run
\* its deferred receive, the in-flight counter counts the workers that have
\* not yet run WG.Done and the entry the dispatcher has added and not yet
\* started, whatever path the worker took; when Run has returned every worker
\* has exited, no slot is held and the counter is zero
C36_CleanupOnEveryPath ==
    /\ sem = Cardinality(HoldingSlot)
    /\ wg = Cardinality(InFlight) + (IF rpc = "acquire" THEN 1 ELSE 0)
    /\ rpc \in {"done", "returned"} =>
          /\ sem = 0
          /\ wg = 0
          /\ \A j \in JobIds : jobs[j].pc = "exit"

\* Run has returned after a cancellation: one worker completed, one ended
\* with the cancellation error of its fetch, one returned at its first test
C36_Witness ==
    /\ cancelled
    /\ rpc = "done"
    /\ sem = 0
    /\ wg = 0
    /\ Len(jobs) = 3
    /\ Len(pages) = 2
    /\ \E i \in 1..Len(pages) : pages[i].Error = ""
    /\ \E i \in 1..Len(pages) : pages[i].Error = CtxResult.Error

\* the asset types in the order of their strings
TypesInOrder == <<"image", "script", "style">>

\* the records of a list that have the given type, in the order of the list
OfType(s, t) == SelectSeq(s, LAMBDA a : a.Type = t)

\* the records grouped by type in alphabetical order, each group in the
\* order of the list
ByTypeKeepingOrder(s) ==
    OfType(s, TypesInOrder[1]) \o OfType(s, TypesInOrder[2])
        \o OfType(s, TypesInOrder[3])

\* C37: when CheckAssets returns, each asset reference of the page, healthy
\* or not, has sent exactly one record, for its own URL, and the list
\* returned is these records grouped by type in alphabetical order, the
\* records of one type in discovery order, whatever the order in which the
\* probes sent them
C37_OneRecordPerAssetByType ==
    [][ \A j \in JobIds :
          (jobs[j].pc = "ca_collect" /\ jobs'[j].pc # "ca_collect") =>
             LET refs == site.assets[jobs[j].url]
                 out == jobs[j].fan.out
                 sent == [i \in 1..Len(refs) |->
                             {n \in 1..Len(out) : out[n].index = i}]
                 records == [i \in 1..Len(refs) |->
                                out[CHOOSE n \in sent[i] : TRUE].asset]
             IN /\ Len(out) = Len(refs)
                /\ \A i \in 1..Len(refs) :
                      /\ Cardinality(sent[i]) = 1
                      /\ records[i].URL = refs[i].URL
                /\ jobs'[j].page.Assets.items = ByTypeKeepingOrder(records)
                /\ Len(jobs'[j].page.Assets.items) = Len(refs)
      ]_vars

\* the three probes of the mixed page ran side by side (both requests for
\* the image were made) and their records are returned as image, script,
\* script with the two scripts in discovery order; the image carries the 404
C37_Witness ==
    \E j \in JobIds :
       /\ site = MixedAssetsSite
       /\ jobs[j].pc = "addpage"
       /\ Len(jobs[j].page.Assets.items) = 3
       /\ jobs[j].page.Assets.items[1].Type = "image"
       /\ jobs[j].page.Assets.items[1].StatusCode = 404
       /\ jobs[j].page.Assets.items[2].URL = Js
       /\ jobs[j].page.Assets.items[2].Error = ""
       /\ jobs[j].page.Assets.items[3].URL = Img
       /\ jobs[j].page.Assets.items[3].Type = "script"
       /\ agets[Img] = 2

\* C38: whenever Fetch has returned, its result is not the empty result that
\* stands after the attempt loop, and it made a request for the page unless
\* it returned the error of the context
C38_FetchReturnsInsideLoop ==
    \A j \in JobIds :
       jobs[j].pc = "fetched" =>
          /\ jobs[j].result # EmptyResult
          /\ (jobs[j].result.Error = CtxResult.Error \/ gets[jobs[j].url] > 0)

\* status error, a non-empty error text and http_status 0 go together
ErrorFieldsAgree(page) ==
    /\ (page.Status = "error") <=> (page.Error # "")
    /\ (page.Error # "") <=> (page.HTTPStatus = 0)

\* C39: in every PageRecord, appended or encoded, the status is error if and
\* only if the error text is non-empty, if and only if http_status is 0
C39_ErrorIffNoStatus ==
    /\ \A i \in 1..Len(pages) : ErrorFieldsAgree(pages[i])
    /\ \A i \in 1..Len(encoded) : ErrorFieldsAgree(encoded[i])

\* the report holds a page whose fetch failed in transport, a page answered
\* 200 and a page answered 500
C39_Witness ==
    /\ rpc = "returned"
    /\ \E i \in 1..Len(encoded) :
          /\ encoded[i].Status = "error"
          /\ encoded[i].Error = TransportErr.err
          /\ encoded[i].HTTPStatus = 0
    /\ \E i \in 1..Len(encoded) :
          encoded[i].Status = "ok" /\ encoded[i].Error = ""
    /\ \E i \in 1..Len(encoded) :
          /\ encoded[i].Status = "server_error"
          /\ encoded[i].Error = ""
          /\ encoded[i].HTTPStatus = 500

\* C40: when the crawl of a site whose pages always answer alike has ended,
\* the depth d of every PageRecord is the link distance of its URL from the
\* root, counted over the pages that answer 2xx with HTML: the URL is within
\* distance d and not within distance d - 1
C40_DepthIsDistance ==
    (rpc = "returned" /\ FixedSite) =>
       \A i \in 1..Len(encoded) :
          encoded[i].URL \in Urls =>
             /\ encoded[i].URL \in Level(encoded[i].Depth)
             /\ encoded[i].Depth > 0 =>
                   encoded[i].URL \notin Level(encoded[i].Depth - 1)
====
